---- MODULE Spec2Model ----
(***************************************************************************)
(* Verification model of the batched delivery pipeline                     *)
(* (src/src/memory/interface.py, class AdsMemoryInterface) and of the      *)
(* statistical detector (src/src/detectors/base.py, class                  *)
(* EnhancedBaseDetector, and src/src/detectors/statistical.py, class       *)
(* StatisticalAnomalyDetector).                                            *)
(*                                                                         *)
(* The interface runs on one asyncio event loop: a task runs without       *)
(* interruption from one await to the next, so every action below is the   *)
(* code between two suspension points of one task.  The suspension points  *)
(* are asyncio.sleep in _periodic_flush, the sink call in _send_to_ads and *)
(* the await of the flush task in cleanup.                                 *)
(***************************************************************************)
EXTENDS Integers, Sequences, FiniteSets, TLC

\* ---------------------------------------------------------------- bounds
\* Number of anomalies the callers enqueue in one behaviour.
MaxEvents == 3
\* max_batch_size handed to the constructor.
MaxBatchSize == 2
\* flush_interval handed to the constructor, in clock units.
FlushInterval == 1
\* Number of sink calls that may raise before the sink succeeds for good.
MaxFail == 1
\* Lengths of the lists handed to ingest_anomalies.
ListLengths == {1, 2}

\* The worker tasks calling the interface (main.py starts several
\* _process_worker tasks that share one memory interface).
Workers == {"w1", "w2"}
Timer == "timer"
Tasks == Workers \cup {Timer}

VARIABLES
    batch_mode,       \* self.batch_mode
    batch_buffer,     \* self._batch_buffer
    last_flush_age,   \* loop.time() - self._last_flush, saturated at FlushInterval
    sleep_left,       \* remaining time of the timer task's asyncio.sleep
    cancel_requested, \* self._flush_task.cancel() was called, not yet delivered
    pc,               \* where each task is suspended
    op,               \* the public method a worker is executing / executed last
    batch_to_send,    \* the local batch_to_send of a task's _flush_batch frame
    idx,              \* position in batch_to_send of the pending sink call
    result,           \* how a worker's last call ended (none while one runs)
    entry,            \* next_event and fails_left at the entry of the call a
                      \* worker is suspended in (NoEntry when it is in none)
    next_event,       \* id of the next anomaly to be ingested (ids count calls)
    sink_calls,       \* the anomalies the sink has been invoked with
    sink_log,         \* anomalies the sink accepted, in acceptance order
    fails_left,       \* sink failures still possible
    initialized,      \* the detector's self._initialized
    config,           \* the detector's configuration, as read by _initialize
    windows,          \* self.windows: metric -> the values of its deque
    baseline_stats,   \* self._baseline_stats: metric -> statistics
    detector_metrics, \* self._metrics: the DetectorMetrics counters
    returned,         \* the detector call made last and how it ended
    observed,         \* metric -> what was pushed into its window since
                      \* initialize, each value with the call that pushed it
    probes,           \* number of health_check calls that ran a detection
    inits,            \* number of initialize calls
    fed,              \* the samples detect was run on since initialize, in order
    preferred_batch_size, \* BatchOptimizedDetector.preferred_batch_size
    optimized_pc,     \* where BatchOptimizedDetector.detect_batch is suspended
    optimized_batch,  \* its data_batch argument
    chunk_start,      \* its loop variable i
    chunks,           \* the lists _detect_batch_optimized was called with
    chunk_results,    \* what those calls returned
    batch_results,    \* its local results
    optimized_returned, \* what it returned
    reported,         \* the values a metric reported, as the deque holds them
    zscore_returned,  \* what _detect_zscore_anomaly made of the last of them
    pool_pc,          \* where each executor thread is in detector.detect
    pool_arrival,     \* the position at which a thread's sample entered the deque
    pool_window,      \* the deque of the metric the threads share
    pool_scored       \* per scoring: the arrival scored and the array it read

interface_vars ==
    <<batch_mode, batch_buffer, last_flush_age, sleep_left, cancel_requested,
      pc, op, batch_to_send, idx, result, entry, next_event, sink_calls,
      sink_log, fails_left>>

detector_vars ==
    <<initialized, config, windows, baseline_stats, detector_metrics, returned,
      observed, probes, inits, fed>>

optimized_vars ==
    <<preferred_batch_size, optimized_pc, optimized_batch, chunk_start, chunks,
      chunk_results, batch_results, optimized_returned>>

binary64_vars == <<reported, zscore_returned>>

pool_vars == <<pool_pc, pool_arrival, pool_window, pool_scored>>

vars == <<interface_vars, detector_vars, optimized_vars, binary64_vars, pool_vars>>

\* ----------------------------------------------------------- pure helpers
Range(s) == {s[i] : i \in 1..Len(s)}

Min(a, b) == IF a <= b THEN a ELSE b

Max(a, b) == IF a >= b THEN a ELSE b

\* <<a, a+1, ..., a+k-1>>
Consecutive(a, k) == [i \in 1..k |-> a + i - 1]

\* An AnomalyEvent, reduced to the field that identifies it.
AnomalyEvent(n) == [event_id |-> n]

\* _format_event_for_ads: the DataPoint dict built from the event; the dict is
\* identified by metadata['event_id'].
FormatEventForAds(event) == event.event_id

\* An interface that buffers whatever batch_mode says.
UsesBufferAlways(mode) == TRUE

\* ingest_anomaly line 43 / ingest_anomalies line 55: "if self.batch_mode".
UsesBuffer(mode) == mode

\* A size trigger that fires one anomaly late.
SizeTriggerLate(buf) == Len(buf) > MaxBatchSize

\* ingest_anomaly / ingest_anomalies line 47 / 59: the size trigger.
SizeTrigger(buf) == Len(buf) >= MaxBatchSize

\* A timer that flushes whenever something is pending.
TimerTriggerEarly(age, buf) == buf # <<>>

\* _periodic_flush line 163: the timer's condition, after the sleep.
TimerTrigger(age, buf) == age >= FlushInterval /\ buf # <<>>

\* _flush_batch lines 114-115: copy the buffer, clear it.
SwapOut(buf) == [batch_to_send |-> buf, batch_buffer |-> <<>>]

\* A flush that forgets the failed batch instead of re-adding it.
RebufferDropped(buf, failed) == buf

\* _flush_batch line 126: the failed batch is re-added with list.extend.
Rebuffer(buf, failed) == buf \o failed

\* A flush task that ends after its first flush attempt.
LoopExits == "done"

\* _periodic_flush line 158, "while True": where the flush task goes after a
\* flush attempt, whatever its outcome.
LoopAfterFlush == "sleep"

\* A _flush_batch without its except clause.
FlushBatchCatchesNothing(exc) == FALSE

\* _flush_batch line 123, "except Exception": a sink error is caught, while
\* asyncio.CancelledError (a BaseException since Python 3.8, and setup.py asks
\* for python_requires >= 3.8) is not.
FlushBatchCatches(exc) == exc = "Exception"

\* A _send_to_ads that logs the error and returns.
Swallowed == "ok"

\* _send_to_ads lines 147-149: the sink's error is logged and raised again.
Reraised == "raised"

\* The entry record of a call entered in the current state, and of no call.
AtEntry == [events |-> next_event, fails |-> fails_left]

NoEntry == [events |-> 0, fails |-> 0]

\* ========================================== BatchOptimizedDetector: inputs
\* The longest batch handed to BatchOptimizedDetector.detect_batch and the
\* largest preferred_batch_size.
MaxBatchLen == 5

MaxPreferred == 3

\* The batches: samples 1..n in input order, the empty batch included.
OptimizedBatches == {[i \in 1..n |-> i] : n \in 0..MaxBatchLen}

NotReturned == [done |-> FALSE, results |-> <<>>]

\* ======================================================= the detector: inputs
\* Number of detections run in one behaviour: the detect calls the detector
\* accepts and the health checks that run the synthetic sample.
MaxSamples == 4
\* Number of initialize calls in one behaviour.
MaxInits == 2

\* A value of a sample: a number (all numbers are in units of one half, so that
\* the 0.5 of the synthetic health-check sample is the integer 1), a value
\* float() does not accept, or no value under that key.
Number(n) == [kind |-> "number", value |-> n]

Text == [kind |-> "text", value |-> 0]

Missing == [kind |-> "missing", value |-> 0]

\* The keys a sample may hold.
Sample(cpu, value, test) == [cpu |-> cpu, value |-> value, test |-> test]

\* The samples handed to detect: cpu and value together, cpu alone, and a
\* sample whose value is not a number.
Samples ==
    {Sample(Number(v), Number(v), Missing) : v \in {0, 1, 5, 8}}
        \cup {Sample(Number(8), Missing, Missing), Sample(Number(8), Text, Missing)}

\* The lists handed to detect_batch.
Batches ==
    {<<Sample(Number(8), Number(8), Missing), second>> :
        second \in {Sample(Number(8), Number(8), Missing),
                    Sample(Number(8), Text, Missing)}}

\* A configuration handed to initialize: two metrics, one of them named like a
\* key of the synthetic health-check sample, the thresholds that are the
\* defaults of _initialize, and both or none of the optional methods.
DetectorConfig(window_size, optional) ==
    [window_size |-> window_size, min_samples |-> 3,
     metrics |-> <<"cpu", "value">>,
     std_dev_threshold |-> [num |-> 3, den |-> 1],
     use_iqr |-> optional, iqr_multiplier |-> [num |-> 3, den |-> 2],
     use_mad |-> optional, mad_threshold |-> [num |-> 3, den |-> 1]]

Configs == {DetectorConfig(3, FALSE), DetectorConfig(4, TRUE)}

MetricNames == {"cpu", "value"}

\* ------------------------------------------------ the detector: arithmetic
\* Exact rational numbers; the scores and the confidence are kept as their
\* squares, which are rational where the numbers themselves are square roots.
Rational(n, d) == [num |-> n, den |-> d]

RLess(a, b) == a.num * b.den < b.num * a.den

\* A min that never caps.
RMinFirst(a, b) == a

\* Python's min(a, b): b when b < a, else a.
RMin(a, b) == IF RLess(b, a) THEN b ELSE a

\* Python's max over a non-empty list of rationals: the first maximal one.
RMax(s) == s[CHOOSE i \in 1..Len(s) : \A j \in 1..Len(s) : ~RLess(s[i], s[j])]

RMul(a, b) == Rational(a.num * b.num, a.den * b.den)

Abs(x) == IF x < 0 THEN -x ELSE x

RECURSIVE Sum(_)
Sum(s) == IF s = <<>> THEN 0 ELSE Head(s) + Sum(Tail(s))

SumSq(s) == Sum([i \in 1..Len(s) |-> s[i] * s[i]])

\* np.array(window)[:-1]: the window without the value just pushed.
Prior(window_data) == SubSeq(window_data, 1, Len(window_data) - 1)

\* Len(s) * (value - np.mean(s)).
DevNum(s, value) == Len(s) * value - Sum(s)

\* Len(s)^2 * np.std(s)^2.
VarNum(s) == Len(s) * SumSq(s) - Sum(s) * Sum(s)

\* The values of s in ascending order.
Sorted(s) ==
    [i \in 1..Len(s) |->
        CHOOSE v \in Range(s) :
            /\ Cardinality({j \in 1..Len(s) : s[j] < v}) < i
            /\ i <= Cardinality({j \in 1..Len(s) : s[j] <= v})]

\* 4 * np.percentile(s, 25 * q), numpy's linear interpolation between the two
\* order statistics around position (Len(s) - 1) * q / 4.
Percentile4(s, q) ==
    LET k == (Len(s) - 1) * q
        lo == k \div 4
        r == k % 4
    IN  IF r = 0
        THEN 4 * Sorted(s)[lo + 1]
        ELSE (4 - r) * Sorted(s)[lo + 1] + r * Sorted(s)[lo + 2]

\* 4 * np.median(s).
Median4(s) == Percentile4(s, 2)

\* 4 * (q3 - q1).
Iqr4(s) == Percentile4(s, 3) - Percentile4(s, 1)

\* 16 * np.median(np.abs(s - np.median(s))).
Mad16(s) == Median4([i \in 1..Len(s) |-> Abs(4 * s[i] - Median4(s))])

\* ------------------------------------------------- the detector: scoring
\* A deque that keeps everything.
PushUnbounded(window, value, maxlen) == Append(window, value)

\* deque(maxlen=window_size).append, statistical.py lines 53 and 79: the
\* oldest value leaves when the deque is full.
Push(window, value, maxlen) ==
    IF Len(window) >= maxlen
    THEN Tail(Append(window, value))
    ELSE Append(window, value)

\* _detect_zscore_anomaly, lines 170-182.
DetectZscoreAnomaly(window_data, value, threshold) ==
    /\ Len(window_data) >= 2
    /\ VarNum(Prior(window_data)) # 0
    /\ RLess(RMul(threshold, threshold),
             Rational(DevNum(Prior(window_data), value) * DevNum(Prior(window_data), value),
                      VarNum(Prior(window_data))))

\* _detect_iqr_anomaly, lines 184-198.
DetectIqrAnomaly(window_data, value, multiplier) ==
    /\ Len(window_data) >= 4
    /\ Iqr4(Prior(window_data)) # 0
    /\ LET Outside(q1, q3) ==
               \/ 4 * value * multiplier.den
                      < q1 * multiplier.den - multiplier.num * (q3 - q1)
               \/ 4 * value * multiplier.den
                      > q3 * multiplier.den + multiplier.num * (q3 - q1)
       IN  Outside(Percentile4(Prior(window_data), 1), Percentile4(Prior(window_data), 3))

\* _detect_mad_anomaly, lines 200-212.
DetectMadAnomaly(window_data, value, threshold) ==
    /\ Len(window_data) >= 3
    /\ Mad16(Prior(window_data)) # 0
    /\ RLess(threshold,
             Rational(4 * Abs(4 * value - Median4(Prior(window_data))),
                      Mad16(Prior(window_data))))

\* The methods that fire on a window whose last value is the candidate.
MethodsFiring(window_data, cfg) ==
    LET value == window_data[Len(window_data)] IN
    {m \in {"zscore"} : DetectZscoreAnomaly(window_data, value, cfg.std_dev_threshold)}
        \cup {m \in {"iqr"} : cfg.use_iqr
                              /\ DetectIqrAnomaly(window_data, value, cfg.iqr_multiplier)}
        \cup {m \in {"mad"} : cfg.use_mad
                              /\ DetectMadAnomaly(window_data, value, cfg.mad_threshold)}

\* The score a method reports, squared: lines 127, 147 and 157.
ScoreSq(method, window_data, value) ==
    LET prior == Prior(window_data) IN
    CASE method = "zscore" ->
            IF VarNum(prior) > 0
            THEN Rational(DevNum(prior, value) * DevNum(prior, value), VarNum(prior))
            ELSE Rational(0, 1)
      [] method = "iqr" ->
            IF Iqr4(prior) > 0
            THEN Rational((4 * value - Median4(prior)) * (4 * value - Median4(prior)),
                          Iqr4(prior) * Iqr4(prior))
            ELSE Rational(0, 1)
      [] method = "mad" ->
            IF Mad16(prior) > 0
            THEN Rational(16 * (4 * value - Median4(prior)) * (4 * value - Median4(prior)),
                          Mad16(prior) * Mad16(prior))
            ELSE Rational(0, 1)

\* The value a method predicts: the mean (line 125) or the median (lines 142,
\* 155) of the prior values.
Predicted(method, window_data) ==
    IF method = "zscore"
    THEN Rational(Sum(Prior(window_data)), Len(Prior(window_data)))
    ELSE Rational(Median4(Prior(window_data)), 4)

NoAnomaly == [metric |-> "", method |-> "none"]

AnomalyInfo(metric, method, window_data, value) ==
    [metric |-> metric, method |-> method,
     z_score |-> ScoreSq(method, window_data, value),
     predicted |-> Predicted(method, window_data)]

\* _detect_anomaly_for_metric, lines 119-168: the first method that fires
\* returns, the methods after it are not evaluated.
DetectAnomalyForMetric(metric, window_data, value, cfg) ==
    IF DetectZscoreAnomaly(window_data, value, cfg.std_dev_threshold)
    THEN AnomalyInfo(metric, "zscore", window_data, value)
    ELSE IF cfg.use_iqr /\ DetectIqrAnomaly(window_data, value, cfg.iqr_multiplier)
    THEN AnomalyInfo(metric, "iqr", window_data, value)
    ELSE IF cfg.use_mad /\ DetectMadAnomaly(window_data, value, cfg.mad_threshold)
    THEN AnomalyInfo(metric, "mad", window_data, value)
    ELSE NoAnomaly

\* max(a['z_score'] for a in anomalies), squared.
MaxScoreSq(anomalies) == RMax([i \in 1..Len(anomalies) |-> anomalies[i].z_score])

\* _calculate_severity, lines 214-225; 3.5 squared is 49/4.
CalculateSeverity(anomalies) ==
    IF RLess(Rational(25, 1), MaxScoreSq(anomalies)) THEN "critical"
    ELSE IF RLess(Rational(16, 1), MaxScoreSq(anomalies)) THEN "high"
    ELSE IF RLess(Rational(49, 4), MaxScoreSq(anomalies)) THEN "medium"
    ELSE "low"

\* _calculate_confidence, lines 227-240, squared: min(max_z / 5, 1), times 1.2
\* capped at 1 when more than one anomaly was collected, times the fill level
\* of the window of the first anomaly's metric.
CalculateConfidence(anomalies, wins, cfg) ==
    LET base == RMin(RMul(MaxScoreSq(anomalies), Rational(1, 25)), Rational(1, 1))
        boosted == IF Len(anomalies) > 1
                   THEN RMin(RMul(base, Rational(36, 25)), Rational(1, 1))
                   ELSE base
        fill == Len(wins[anomalies[1].metric])
        sample_factor == RMin(Rational(fill * fill, cfg.window_size * cfg.window_size),
                              Rational(1, 1))
    IN  RMul(boosted, sample_factor)

\* The statistics _update_baseline_stats stores for one window (lines 247-254):
\* mean = sum / count, std^2 = var_num / count^2, median = median4 / 4.
WindowStats(window) ==
    [count |-> Len(window), sum |-> Sum(window), var_num |-> VarNum(window),
     min |-> Sorted(window)[1], max |-> Sorted(window)[Len(window)],
     median4 |-> Median4(window)]

\* No entry in self._baseline_stats.
NoStats == [count |-> 0, sum |-> 0, var_num |-> 0, min |-> 0, max |-> 0, median4 |-> 0]

\* _update_baseline_stats, lines 242-254: the windows that hold at least
\* min_samples values get new statistics, the others keep what they had.
UpdateBaselineStats(wins, stats, cfg) ==
    [m \in DOMAIN stats |->
        IF m \in DOMAIN wins /\ Len(wins[m]) >= cfg.min_samples
        THEN WindowStats(wins[m])
        ELSE stats[m]]

\* _update_baseline_stats, lines 244-251: np.min of an empty array raises
\* ValueError, which happens at the first window, in the order of the metrics,
\* that is empty and still holds min_samples values (min_samples of 0); 0 when
\* there is none.
FirstEmptyScored(wins, cfg) ==
    LET empty == {i \in 1..Len(cfg.metrics) :
                     /\ wins[cfg.metrics[i]] = <<>>
                     /\ Len(wins[cfg.metrics[i]]) >= cfg.min_samples}
    IN  IF empty = {} THEN 0 ELSE CHOOSE i \in empty : \A j \in empty : i <= j

\* _update_baseline_stats left by the ValueError at the window of the i-th
\* metric: the metrics before it have their new statistics.
UpdateBaselineStatsBefore(wins, stats, cfg, i) ==
    [m \in DOMAIN stats |->
        IF \E j \in 1..(i - 1) : cfg.metrics[j] = m
        THEN WindowStats(wins[m])
        ELSE stats[m]]

\* "metric in data" (line 72) and float(data[metric]) (line 75).
InSample(metric, data) == data[metric].kind # "missing"

IsNumeric(x) == x.kind = "number"

NoEvent == [severity |-> "none"]

\* The AnomalyEvent built at lines 99-115.
BuildEvent(anomalies, raw_values, wins, cfg) ==
    [severity |-> CalculateSeverity(anomalies),
     confidence |-> CalculateConfidence(anomalies, wins, cfg),
     affected_metrics |-> [i \in 1..Len(anomalies) |-> anomalies[i].metric],
     z_scores |-> [i \in 1..Len(anomalies) |->
                      <<anomalies[i].metric, anomalies[i].z_score>>],
     predicted_values |-> [i \in 1..Len(anomalies) |->
                              <<anomalies[i].metric, anomalies[i].predicted>>],
     raw_values |-> raw_values,
     detection_methods |-> [i \in 1..Len(anomalies) |-> anomalies[i].method]]

\* _detect line 81: a window below min_samples is not scored.
ScoresWindow(window, cfg) == Len(window) >= cfg.min_samples

\* The loop of _detect, lines 71-90, from the i-th configured metric on: the
\* windows pushed so far, the anomalies and raw values collected so far, and
\* whether float() raised.
RECURSIVE DetectLoop(_, _, _, _, _, _)
DetectLoop(i, data, cfg, wins, anomalies, raw_values) ==
    IF i > Len(cfg.metrics)
    THEN [raised |-> FALSE, windows |-> wins, anomalies |-> anomalies,
          raw_values |-> raw_values]
    ELSE LET metric == cfg.metrics[i] IN
         IF ~InSample(metric, data)
         THEN DetectLoop(i + 1, data, cfg, wins, anomalies, raw_values)
         ELSE IF ~IsNumeric(data[metric])
         THEN [raised |-> TRUE, windows |-> wins, anomalies |-> anomalies,
               raw_values |-> raw_values]
         ELSE LET value == data[metric].value
                  raw == Append(raw_values, <<metric, value>>)
                  Scored(window, info) ==
                      IF ScoresWindow(window, cfg) /\ info # NoAnomaly
                      THEN DetectLoop(i + 1, data, cfg, [wins EXCEPT ![metric] = window],
                                      Append(anomalies, info), raw)
                      ELSE DetectLoop(i + 1, data, cfg, [wins EXCEPT ![metric] = window],
                                      anomalies, raw)
                  Pushed(window) ==
                      Scored(window, DetectAnomalyForMetric(metric, window, value, cfg))
              IN  Pushed(Push(wins[metric], value, cfg.window_size))

\* _detect, lines 64-117: the loop, then the baseline statistics, then the
\* event if anything was collected.  An exception of the loop leaves the method
\* before line 93, an exception of _update_baseline_stats before line 95.
DetectInner(data, cfg, wins, stats) ==
    LET AfterLoop(loop) ==
            IF loop.raised
            THEN [raised |-> TRUE, windows |-> loop.windows, baseline_stats |-> stats,
                  pushed |-> loop.raw_values, event |-> NoEvent]
            ELSE IF FirstEmptyScored(loop.windows, cfg) # 0
            THEN [raised |-> TRUE, windows |-> loop.windows,
                  baseline_stats |->
                      UpdateBaselineStatsBefore(loop.windows, stats, cfg,
                                                FirstEmptyScored(loop.windows, cfg)),
                  pushed |-> loop.raw_values, event |-> NoEvent]
            ELSE [raised |-> FALSE, windows |-> loop.windows,
                  pushed |-> loop.raw_values,
                  baseline_stats |-> UpdateBaselineStats(loop.windows, stats, cfg),
                  event |-> IF loop.anomalies # <<>>
                            THEN BuildEvent(loop.anomalies, loop.raw_values,
                                            loop.windows, cfg)
                            ELSE NoEvent]
    IN  AfterLoop(DetectLoop(1, data, cfg, wins, <<>>, <<>>))

\* _generate_test_data, base.py line 110: {"test": 1.0, "value": 0.5}.
GenerateTestData == Sample(Missing, Number(1), Number(2))

\* DetectorMetrics after construction (models.py lines 137-140).
NoCounts == [processed_count |-> 0, anomaly_count |-> 0, error_count |-> 0]

NoConfig == [window_size |-> 0]

NoCall == [call |-> "none", outcome |-> "none", events |-> <<>>]

\* EnhancedBaseDetector.__init__, base.py lines 17-21; self.windows does not
\* exist before _initialize.
DetectorConstructed ==
    /\ initialized = FALSE
    /\ config = NoConfig
    /\ windows = [m \in {} |-> <<>>]
    /\ baseline_stats = [m \in MetricNames |-> NoStats]
    /\ detector_metrics = NoCounts
    /\ returned = NoCall
    /\ observed = [m \in MetricNames |-> <<>>]
    /\ fed = <<>>
    /\ probes = 0
    /\ inits = 0

\* No BatchOptimizedDetector exists yet.
BatchOptimizedUnused ==
    /\ preferred_batch_size = 0
    /\ optimized_pc = "idle"
    /\ optimized_batch = <<>>
    /\ chunk_start = 0
    /\ chunks = <<>>
    /\ chunk_results = <<>>
    /\ batch_results = <<>>
    /\ optimized_returned = NotReturned

\* No value reported yet, _detect_zscore_anomaly not called.
NotScored == [fires |-> FALSE, std_zero |-> FALSE]

ZscoreUnused ==
    /\ reported = <<>>
    /\ zscore_returned = NotScored

\* The threads of the executor handed to ThreadPoolDetector.
PoolThreads == {"t1", "t2"}

\* No detect call submitted yet.
PoolUnused ==
    /\ pool_pc = [t \in PoolThreads |-> "idle"]
    /\ pool_arrival = [t \in PoolThreads |-> 0]
    /\ pool_window = <<>>
    /\ pool_scored = <<>>

\* ------------------------------------------------------------------ Init
Init ==
    /\ batch_mode \in BOOLEAN
    /\ batch_buffer = <<>>
    /\ last_flush_age = 0
    /\ sleep_left = IF batch_mode THEN FlushInterval ELSE 0
    /\ cancel_requested = FALSE
    /\ pc = [t \in Tasks |-> IF t = Timer
                             THEN (IF batch_mode THEN "sleep" ELSE "absent")
                             ELSE "idle"]
    /\ op = [w \in Workers |-> "none"]
    /\ batch_to_send = [t \in Tasks |-> <<>>]
    /\ idx = [t \in Tasks |-> 0]
    /\ result = [w \in Workers |-> "none"]
    /\ entry = [w \in Workers |-> NoEntry]
    /\ next_event = 1
    /\ sink_calls = {}
    /\ sink_log = <<>>
    /\ fails_left = MaxFail
    /\ DetectorConstructed
    /\ BatchOptimizedUnused
    /\ ZscoreUnused
    /\ PoolUnused

\* ------------------------------------------------- steps shared by actions
\* A worker's call ends: how is ok (returned, no flush of its own), flushed
\* (returned after its flush succeeded, line 121), requeued (returned after
\* its flush failed and was re-added, lines 124-126) or raised.
Return(w, how) ==
    /\ pc' = [pc EXCEPT ![w] = "idle"]
    /\ result' = [result EXCEPT ![w] = how]
    /\ entry' = [entry EXCEPT ![w] = NoEntry]

\* A worker's call suspends at where; started is the entry record of the call.
Suspend(w, where, started) ==
    /\ pc' = [pc EXCEPT ![w] = where]
    /\ result' = [result EXCEPT ![w] = "none"]
    /\ entry' = [entry EXCEPT ![w] = started]

\* _send_to_ads lines 135-143: the sink is invoked with anomaly e.
SinkCall(e) == sink_calls' = sink_calls \cup {e}

\* _flush_batch lines 110-119 run by task t on buffer contents buf (not empty):
\* swap, stamp _last_flush, and invoke the sink with the first anomaly, at
\* which the task suspends.
StartFlush(t, buf) ==
    /\ batch_buffer' = SwapOut(buf).batch_buffer
    /\ batch_to_send' = [batch_to_send EXCEPT ![t] = SwapOut(buf).batch_to_send]
    /\ idx' = [idx EXCEPT ![t] = 1]
    /\ last_flush_age' = 0
    /\ SinkCall(buf[1])

\* The end of a flush or direct send of task t: a worker's call ends, the
\* timer task goes round its loop into the next sleep.
EndSend(t, how) ==
    /\ batch_to_send' = [batch_to_send EXCEPT ![t] = <<>>]
    /\ idx' = [idx EXCEPT ![t] = 0]
    /\ IF t = Timer
       THEN /\ pc' = [pc EXCEPT ![t] = LoopAfterFlush]
            /\ sleep_left' = IF LoopAfterFlush = "sleep" THEN FlushInterval ELSE 0
            /\ UNCHANGED <<result, entry>>
       ELSE /\ Return(t, how)
            /\ UNCHANGED sleep_left

\* The body shared by ingest_anomaly (lines 43-51) and ingest_anomalies (lines
\* 55-64) for the list anomalies (not empty), first id started.
IngestBody(w, anomalies, started) ==
    IF UsesBuffer(batch_mode)
    THEN LET buf == batch_buffer \o anomalies IN
         IF SizeTrigger(buf)
         THEN /\ StartFlush(w, buf)
              /\ Suspend(w, "send", started)
              /\ UNCHANGED sink_log
         ELSE /\ batch_buffer' = buf
              /\ Return(w, "ok")
              /\ UNCHANGED <<last_flush_age, batch_to_send, idx, sink_calls,
                             sink_log>>
    ELSE /\ SinkCall(anomalies[1])
         /\ batch_to_send' = [batch_to_send EXCEPT ![w] = anomalies]
         /\ idx' = [idx EXCEPT ![w] = 1]
         /\ Suspend(w, "direct", started)
         /\ UNCHANGED <<batch_buffer, last_flush_age, sink_log>>

\* flush(), lines 173-174, as called by a public method of worker w: flush
\* the buffer if it holds anything, else return.
FlushBody(w, started) ==
    IF batch_buffer # <<>>
    THEN /\ StartFlush(w, batch_buffer)
         /\ Suspend(w, "send", started)
         /\ UNCHANGED sink_log
    ELSE /\ Return(w, "ok")
         /\ UNCHANGED <<batch_buffer, last_flush_age, batch_to_send, idx,
                        sink_calls, sink_log>>

\* ----------------------------------------------------------------- actions
\* ingest_anomaly(anomaly), lines 41-51.
IngestAnomaly(w) ==
    /\ UNCHANGED <<detector_vars, optimized_vars, binary64_vars, pool_vars>>
    /\ pc[w] = "idle"
    /\ next_event <= MaxEvents
    /\ next_event' = next_event + 1
    /\ op' = [op EXCEPT ![w] = "ingest_anomaly"]
    /\ IngestBody(w, <<next_event>>, AtEntry)
    /\ UNCHANGED <<batch_mode, sleep_left, cancel_requested, fails_left>>

\* ingest_event(event), lines 66-69: format the event, then ingest_anomaly.
IngestEvent(w) ==
    /\ UNCHANGED <<detector_vars, optimized_vars, binary64_vars, pool_vars>>
    /\ pc[w] = "idle"
    /\ next_event <= MaxEvents
    /\ next_event' = next_event + 1
    /\ op' = [op EXCEPT ![w] = "ingest_anomaly"]
    /\ IngestBody(w, <<FormatEventForAds(AnomalyEvent(next_event))>>, AtEntry)
    /\ UNCHANGED <<batch_mode, sleep_left, cancel_requested, fails_left>>

\* ingest_anomalies(anomalies), lines 53-64, with a list of k new anomalies.
IngestAnomalies(w, k) ==
    /\ UNCHANGED <<detector_vars, optimized_vars, binary64_vars, pool_vars>>
    /\ pc[w] = "idle"
    /\ next_event + k - 1 <= MaxEvents
    /\ next_event' = next_event + k
    /\ op' = [op EXCEPT ![w] = "ingest_anomalies"]
    /\ IngestBody(w, Consecutive(next_event, k), AtEntry)
    /\ UNCHANGED <<batch_mode, sleep_left, cancel_requested, fails_left>>

\* flush(), lines 171-174.
Flush(w) ==
    /\ UNCHANGED <<detector_vars, optimized_vars, binary64_vars, pool_vars>>
    /\ pc[w] = "idle"
    /\ op' = [op EXCEPT ![w] = "flush"]
    /\ FlushBody(w, AtEntry)
    /\ UNCHANGED <<batch_mode, sleep_left, cancel_requested, next_event, fails_left>>

\* cleanup(), lines 176-186: cancel the flush task and await it.  Awaiting a
\* task that is already done does not suspend; without a task (batch_mode
\* off) the method goes on to the final flush at once.
Cleanup(w) ==
    /\ UNCHANGED <<detector_vars, optimized_vars, binary64_vars, pool_vars>>
    /\ pc[w] = "idle"
    /\ op' = [op EXCEPT ![w] = "cleanup"]
    /\ IF pc[Timer] \in {"sleep", "send"}
       THEN /\ cancel_requested' = TRUE
            /\ Suspend(w, "await_task", AtEntry)
            /\ UNCHANGED <<batch_buffer, last_flush_age, batch_to_send, idx,
                           sink_calls, sink_log>>
       ELSE /\ FlushBody(w, AtEntry)
            /\ UNCHANGED cancel_requested
    /\ UNCHANGED <<batch_mode, sleep_left, next_event, fails_left>>

\* cleanup(), lines 181-186: the awaited flush task has ended; final flush.
CleanupResume(w) ==
    /\ UNCHANGED <<detector_vars, optimized_vars, binary64_vars, pool_vars>>
    /\ pc[w] = "await_task"
    /\ pc[Timer] = "done"
    /\ FlushBody(w, entry[w])
    /\ UNCHANGED <<batch_mode, sleep_left, cancel_requested, op, next_event,
                   fails_left>>

\* The event loop's clock advances by one unit.
Tick ==
    /\ UNCHANGED <<detector_vars, optimized_vars, binary64_vars, pool_vars>>
    /\ last_flush_age' = Min(last_flush_age + 1, FlushInterval)
    /\ sleep_left' = Max(sleep_left - 1, 0)
    /\ UNCHANGED <<batch_mode, batch_buffer, cancel_requested, pc, op,
                   batch_to_send, idx, result, entry, next_event, sink_calls,
                   sink_log, fails_left>>

\* _periodic_flush, lines 158-164: the sleep is over; flush when the interval
\* has elapsed since the last flush and the buffer is not empty, else sleep again.
TimerWake ==
    /\ UNCHANGED <<detector_vars, optimized_vars, binary64_vars, pool_vars>>
    /\ pc[Timer] = "sleep"
    /\ sleep_left = 0
    /\ ~cancel_requested
    /\ IF TimerTrigger(last_flush_age, batch_buffer)
       THEN /\ StartFlush(Timer, batch_buffer)
            /\ pc' = [pc EXCEPT ![Timer] = "send"]
            /\ UNCHANGED <<sleep_left, sink_log>>
       ELSE /\ sleep_left' = FlushInterval
            /\ UNCHANGED <<batch_buffer, last_flush_age, pc, batch_to_send, idx,
                           sink_calls, sink_log>>
    /\ UNCHANGED <<batch_mode, cancel_requested, op, result, entry, next_event,
                   fails_left>>

\* The cancellation requested by cleanup reaches the flush task at its await.
\* In the sleep it is caught at line 166 and the loop ends.  In a send the sink
\* may or may not have accepted the pending anomaly; CancelledError then leaves
\* _send_to_ads and _flush_batch (neither "except Exception" catches it) and
\* ends the loop at line 166, the local batch_to_send going with the frame.
TimerCancelled ==
    /\ UNCHANGED <<detector_vars, optimized_vars, binary64_vars, pool_vars>>
    /\ cancel_requested
    /\ pc[Timer] \in {"sleep", "send"}
    /\ cancel_requested' = FALSE
    /\ IF pc[Timer] = "sleep"
       THEN /\ pc' = [pc EXCEPT ![Timer] = "done"]
            /\ sleep_left' = 0
            /\ UNCHANGED <<batch_buffer, batch_to_send, idx, sink_log>>
       ELSE /\ \E accepted \in BOOLEAN :
                 sink_log' = IF accepted
                             THEN Append(sink_log, batch_to_send[Timer][idx[Timer]])
                             ELSE sink_log
            /\ batch_to_send' = [batch_to_send EXCEPT ![Timer] = <<>>]
            /\ idx' = [idx EXCEPT ![Timer] = 0]
            /\ IF FlushBatchCatches("CancelledError")
               THEN /\ batch_buffer' = Rebuffer(batch_buffer, batch_to_send[Timer])
                    /\ pc' = [pc EXCEPT ![Timer] = "sleep"]
                    /\ sleep_left' = FlushInterval
               ELSE /\ pc' = [pc EXCEPT ![Timer] = "done"]
                    /\ UNCHANGED <<batch_buffer, sleep_left>>
    /\ UNCHANGED <<batch_mode, last_flush_age, op, result, entry, next_event,
                   sink_calls, fails_left>>

\* The sink call pending for task t returns normally (_send_to_ads lines
\* 135-145).  _send_batch_to_ads (lines 153-154) and the loop of
\* ingest_anomalies (lines 63-64) then invoke the sink with the next anomaly;
\* after the last one the flush, and the public method, return.
SinkOk(t) ==
    /\ UNCHANGED <<detector_vars, optimized_vars, binary64_vars, pool_vars>>
    /\ pc[t] \in {"send", "direct"}
    /\ t = Timer => ~cancel_requested
    /\ sink_log' = Append(sink_log, batch_to_send[t][idx[t]])
    /\ IF idx[t] < Len(batch_to_send[t])
       THEN /\ idx' = [idx EXCEPT ![t] = idx[t] + 1]
            /\ SinkCall(batch_to_send[t][idx[t] + 1])
            /\ UNCHANGED <<pc, batch_to_send, result, entry, sleep_left>>
       ELSE /\ EndSend(t, IF pc[t] = "send" THEN "flushed" ELSE "ok")
            /\ UNCHANGED sink_calls
    /\ UNCHANGED <<batch_mode, batch_buffer, last_flush_age, cancel_requested,
                   op, next_event, fails_left>>

\* The sink call pending for task t raises (_send_to_ads lines 147-149 log and
\* re-raise).  In a flush, _flush_batch lines 123-126 catch the error and
\* re-add the batch; an error _flush_batch does not catch reaches the worker's
\* caller, or the "except Exception" of the timer's loop (line 168).  Outside
\* batch mode the error of the direct send reaches the caller.
SinkRaises(t) ==
    /\ UNCHANGED <<detector_vars, optimized_vars, binary64_vars, pool_vars>>
    /\ pc[t] \in {"send", "direct"}
    /\ t = Timer => ~cancel_requested
    /\ IF pc[t] = "send" /\ FlushBatchCatches("Exception")
       THEN /\ batch_buffer' = Rebuffer(batch_buffer, batch_to_send[t])
            /\ EndSend(t, "requeued")
       ELSE /\ EndSend(t, Reraised)
            /\ UNCHANGED batch_buffer
    /\ UNCHANGED <<batch_mode, last_flush_age, cancel_requested, op,
                   next_event, sink_calls, sink_log>>

\* A sink that raises at most MaxFail times.
SinkFail(t) ==
    /\ fails_left > 0
    /\ fails_left' = fails_left - 1
    /\ SinkRaises(t)

Next ==
    \/ \E w \in Workers : IngestAnomaly(w)
    \/ \E w \in Workers : IngestEvent(w)
    \/ \E w \in Workers : \E k \in ListLengths : IngestAnomalies(w, k)
    \/ \E w \in Workers : Flush(w)
    \/ \E w \in Workers : Cleanup(w)
    \/ \E w \in Workers : CleanupResume(w)
    \/ Tick
    \/ TimerWake
    \/ TimerCancelled
    \/ \E t \in Tasks : SinkOk(t)
    \/ \E t \in Tasks : SinkFail(t)

Spec == Init /\ [][Next]_vars

\* ------------------------------------------- the flush task left running
\* The interface in use while nobody calls cleanup: the periodic flush task is
\* never cancelled.
NextRunning ==
    \/ \E w \in Workers : IngestAnomaly(w)
    \/ \E w \in Workers : IngestEvent(w)
    \/ \E w \in Workers : \E k \in ListLengths : IngestAnomalies(w, k)
    \/ \E w \in Workers : Flush(w)
    \/ Tick
    \/ TimerWake
    \/ \E t \in Tasks : SinkOk(t)
    \/ \E t \in Tasks : SinkFail(t)

\* The event loop keeps running: its clock advances, a task whose sleep is over
\* is resumed, and a pending sink call returns or raises.
Fairness ==
    /\ WF_vars(Tick)
    /\ WF_vars(TimerWake)
    /\ \A t \in Tasks : WF_vars(SinkOk(t) \/ SinkFail(t))

LiveSpec == Init /\ [][NextRunning]_vars /\ Fairness

\* The constructor called with batch_mode=True (the default).
InitBatch == Init /\ batch_mode = TRUE

\* --------------------------------------------- a sustained sink outage
\* The downstream service is down: every sink call raises, however many.
SinkDown(t) ==
    /\ SinkRaises(t)
    /\ UNCHANGED fails_left

NextOutage ==
    \/ \E w \in Workers : IngestAnomaly(w)
    \/ \E w \in Workers : IngestEvent(w)
    \/ \E w \in Workers : \E k \in ListLengths : IngestAnomalies(w, k)
    \/ \E w \in Workers : Flush(w)
    \/ \E w \in Workers : Cleanup(w)
    \/ \E w \in Workers : CleanupResume(w)
    \/ Tick
    \/ TimerWake
    \/ TimerCancelled
    \/ \E t \in Tasks : SinkDown(t)

\* Batch mode while the sink is down.
OutageSpec == InitBatch /\ [][NextOutage]_vars

\* ------------------------------------------- no size trigger, no flush()
\* ingest_anomaly called only while the buffer stays below max_batch_size.
QuietIngest(w) ==
    /\ ~SizeTrigger(Append(batch_buffer, next_event))
    /\ IngestAnomaly(w)

\* Batch mode with the periodic flush task as the only source of flushes.
NextTimerOnly ==
    \/ \E w \in Workers : QuietIngest(w)
    \/ Tick
    \/ TimerWake
    \/ SinkOk(Timer)
    \/ SinkFail(Timer)

TimerOnlySpec == InitBatch /\ [][NextTimerOnly]_vars /\ Fairness

\* ============================================================== the detector
\* The record of what a call pushed into the windows: pushed lists the
\* <<metric, value>> pairs in push order, by names the call.
Observe(seen, pushed, by) ==
    [m \in DOMAIN seen |->
        seen[m] \o [i \in 1..Cardinality({j \in 1..Len(pushed) : pushed[j][1] = m}) |->
                       [value |-> pushed[CHOOSE j \in 1..Len(pushed) : pushed[j][1] = m][2],
                        by |-> by]]]

\* The detector's state as a value.
DetectorState ==
    [windows |-> windows, baseline_stats |-> baseline_stats,
     detector_metrics |-> detector_metrics, observed |-> observed, fed |-> fed]

\* A guard that lets a cleaned-up detector go on detecting.
RejectsUnconfigured(init, cfg) == cfg = NoConfig

\* detect, base.py line 37: "if not self._initialized".
RejectsCall(init, cfg) == ~init

\* An except branch that swallows the error uncounted.
MaskError(metrics) == metrics

\* base.py line 63: self._metrics.error_count += 1.
CountError(metrics) == [metrics EXCEPT !.error_count = @ + 1]

\* A detect that does not count the call.
CountUnprocessed(metrics) == metrics

\* base.py line 41: self._metrics.processed_count += 1.
CountProcessed(metrics) == [metrics EXCEPT !.processed_count = @ + 1]

\* detect on an initialized detector, base.py lines 40-69: count the call, run
\* _detect, count an event or an error.
DetectCall(data, cfg, st) ==
    LET counted == CountProcessed(st.detector_metrics)
        Counted(r, fired) ==
            [windows |-> r.windows,
             baseline_stats |-> r.baseline_stats,
             detector_metrics |->
                 IF r.raised THEN CountError(counted)
                 ELSE IF fired THEN [counted EXCEPT !.anomaly_count = @ + 1]
                 ELSE counted,
             observed |-> Observe(st.observed, r.pushed, "detect"),
             fed |-> Append(st.fed, data),
             outcome |-> IF r.raised THEN "raised"
                         ELSE IF fired THEN "event" ELSE "no_event",
             events |-> IF fired THEN <<r.event>> ELSE <<>>]
        Returned(r) == Counted(r, ~r.raised /\ r.event.severity # "none")
    IN  Returned(DetectInner(data, cfg, st.windows, st.baseline_stats))

\* A batch that puts the newest event first.
CollectNewestFirst(results, events) == events \o results

\* base.py lines 89-90: results.append(result) when detect returned an event.
Collect(results, events) == results \o events

\* detect_batch, base.py lines 84-91: detect sample after sample, collecting
\* the events; an exception of a detect call ends the batch without a result.
RECURSIVE DetectBatchLoop(_, _, _, _)
DetectBatchLoop(data_batch, cfg, st, results) ==
    IF data_batch = <<>>
    THEN [windows |-> st.windows, baseline_stats |-> st.baseline_stats,
          detector_metrics |-> st.detector_metrics, observed |-> st.observed,
          fed |-> st.fed, outcome |-> "returned", events |-> results]
    ELSE LET AfterCall(c) ==
                 IF c.outcome = "raised"
                 THEN [c EXCEPT !.events = <<>>]
                 ELSE DetectBatchLoop(Tail(data_batch), cfg,
                                      [windows |-> c.windows,
                                       baseline_stats |-> c.baseline_stats,
                                       detector_metrics |-> c.detector_metrics,
                                       observed |-> c.observed, fed |-> c.fed],
                                      Collect(results, c.events))
         IN  AfterCall(DetectCall(Head(data_batch), cfg, st))

\* The detector takes the state a call computed.
Becomes(c, call) ==
    /\ windows' = c.windows
    /\ baseline_stats' = c.baseline_stats
    /\ detector_metrics' = c.detector_metrics
    /\ observed' = c.observed
    /\ fed' = c.fed
    /\ returned' = [call |-> call, outcome |-> c.outcome, events |-> c.events]

\* A call that ends without touching the detector's state.
Refused(call, outcome) ==
    /\ returned' = [call |-> call, outcome |-> outcome, events |-> <<>>]
    /\ UNCHANGED <<windows, baseline_stats, detector_metrics, observed, fed>>

\* initialize(config), base.py lines 23-28 and statistical.py lines 38-62,
\* called on a detector that is not initialized: a new one, or one cleaned up.
Initialize(cfg) ==
    /\ ~initialized
    /\ inits < MaxInits
    /\ inits' = inits + 1
    /\ config' = cfg
    /\ windows' = [m \in Range(cfg.metrics) |-> <<>>]
    /\ initialized' = TRUE
    /\ observed' = [m \in MetricNames |-> <<>>]
    /\ fed' = <<>>
    /\ returned' = [call |-> "initialize", outcome |-> "returned", events |-> <<>>]
    /\ UNCHANGED <<baseline_stats, detector_metrics, probes>>
    /\ UNCHANGED <<interface_vars, optimized_vars, binary64_vars, pool_vars>>

\* detect(data), base.py lines 35-69.
Detect(data) ==
    /\ IF RejectsCall(initialized, config)
       THEN Refused("detect", "not_initialized")
       ELSE /\ detector_metrics.processed_count + probes < MaxSamples
            /\ Becomes(DetectCall(data, config, DetectorState), "detect")
    /\ UNCHANGED <<initialized, config, probes, inits>>
    /\ UNCHANGED <<interface_vars, optimized_vars, binary64_vars, pool_vars>>

\* detect_batch(data_batch), base.py lines 84-91.
DetectBatch(data_batch) ==
    /\ IF RejectsCall(initialized, config)
       THEN Refused("detect_batch", "not_initialized")
       ELSE /\ detector_metrics.processed_count + probes + Len(data_batch) <= MaxSamples
            /\ Becomes(DetectBatchLoop(data_batch, config, DetectorState, <<>>),
                       "detect_batch")
    /\ UNCHANGED <<initialized, config, probes, inits>>
    /\ UNCHANGED <<interface_vars, optimized_vars, binary64_vars, pool_vars>>

\* A health check that lets the error of the synthetic detection out.
ProbeOutcomeUncaught(raised) == IF raised THEN "raised" ELSE "true"

\* health_check, base.py lines 99-106: True after _detect returned, False from
\* the "except Exception" branch.
ProbeOutcome(raised) == IF raised THEN "false" ELSE "true"

\* health_check(), base.py lines 93-106: False when not initialized, else run
\* _detect on the synthetic sample and report whether it raised.
HealthCheck ==
    /\ IF ~initialized
       THEN /\ Refused("health_check", "false")
            /\ UNCHANGED probes
       ELSE /\ detector_metrics.processed_count + probes < MaxSamples
            /\ probes' = probes + 1
            /\ LET Probed(r) ==
                       /\ windows' = r.windows
                       /\ baseline_stats' = r.baseline_stats
                       /\ observed' = Observe(observed, r.pushed, "health_check")
                       /\ returned' = [call |-> "health_check",
                                       outcome |-> ProbeOutcome(r.raised),
                                       events |-> <<>>]
               IN  Probed(DetectInner(GenerateTestData, config, windows, baseline_stats))
            /\ UNCHANGED <<detector_metrics, fed>>
    /\ UNCHANGED <<initialized, config, inits>>
    /\ UNCHANGED <<interface_vars, optimized_vars, binary64_vars, pool_vars>>

\* cleanup(), base.py lines 116-120.
DetectorCleanup ==
    /\ initialized' = FALSE
    /\ Refused("cleanup", "returned")
    /\ UNCHANGED <<config, probes, inits>>
    /\ UNCHANGED <<interface_vars, optimized_vars, binary64_vars, pool_vars>>

DetectorNext ==
    \/ \E cfg \in Configs : Initialize(cfg)
    \/ \E data \in Samples : Detect(data)
    \/ \E data_batch \in Batches : DetectBatch(data_batch)
    \/ HealthCheck
    \/ DetectorCleanup

\* The detector's callers run on one event loop and detect awaits nothing that
\* suspends, so every call is one step.
DetectorSpec == InitBatch /\ [][DetectorNext]_vars

\* A configuration whose min_samples is 0 (config.get('min_samples', 10) takes
\* any value, statistical.py line 42): every window is scored, the empty ones
\* too.
DegenerateConfig == [DetectorConfig(3, FALSE) EXCEPT !.min_samples = 0]

HealthConfigs == {DetectorConfig(3, FALSE), DegenerateConfig}

\* The detector under the configurations of HealthConfigs.
HealthNext ==
    \/ \E cfg \in HealthConfigs : Initialize(cfg)
    \/ \E data \in Samples : Detect(data)
    \/ HealthCheck
    \/ DetectorCleanup

HealthSpec == InitBatch /\ [][HealthNext]_vars


\* ================================================ BatchOptimizedDetector
\* data_batch[i:i + size], a Python slice: it ends where the list ends.
Slice(data, i, size) == SubSeq(data, i + 1, Min(i + size, Len(data)))

\* A loop that leaves out the sample after every chunk.
StepOver(i, size) == i + size + 1

\* range(0, len(data_batch), self.preferred_batch_size), line 274: the next i.
Step(i, size) == i + size

\* The results _detect_batch_optimized may return for a chunk: the abstract
\* method of a subclass, here the events of any of the chunk's samples in chunk
\* order, an event being named after its sample.
OptimizedResults(chunk) ==
    {SelectSeq(chunk, LAMBDA x : x \in anomalous) : anomalous \in SUBSET Range(chunk)}

\* BatchOptimizedDetector.__init__, lines 257-259.
OptimizedConstruct(size) ==
    /\ preferred_batch_size = 0
    /\ preferred_batch_size' = size
    /\ UNCHANGED <<optimized_pc, optimized_batch, chunk_start, chunks, chunk_results,
                   batch_results, optimized_returned>>
    /\ UNCHANGED <<interface_vars, detector_vars, binary64_vars, pool_vars>>

\* detect_batch(data_batch) up to its first await, lines 269-276: the whole
\* batch when it is short enough, else the first chunk.
OptimizedDetectBatch(data) ==
    /\ preferred_batch_size > 0
    /\ optimized_pc = "idle"
    /\ optimized_returned = NotReturned
    /\ optimized_batch' = data
    /\ batch_results' = <<>>
    /\ chunk_start' = 0
    /\ chunk_results' = <<>>
    /\ IF Len(data) <= preferred_batch_size
       THEN /\ optimized_pc' = "whole"
            /\ chunks' = <<data>>
       ELSE /\ optimized_pc' = "chunk"
            /\ chunks' = <<Slice(data, 0, preferred_batch_size)>>
    /\ UNCHANGED <<preferred_batch_size, optimized_returned>>
    /\ UNCHANGED <<interface_vars, detector_vars, binary64_vars, pool_vars>>

\* _detect_batch_optimized(data_batch) returns at line 270: its result is the
\* result of detect_batch.
WholeReturns ==
    /\ optimized_pc = "whole"
    /\ \E chunk_result \in OptimizedResults(chunks[Len(chunks)]) :
          /\ chunk_results' = Append(chunk_results, chunk_result)
          /\ optimized_returned' = [done |-> TRUE, results |-> chunk_result]
    /\ optimized_pc' = "idle"
    /\ UNCHANGED <<preferred_batch_size, optimized_batch, chunk_start, chunks,
                   batch_results>>
    /\ UNCHANGED <<interface_vars, detector_vars, binary64_vars, pool_vars>>

\* _detect_batch_optimized(chunk) returns at line 276: extend results, then the
\* next chunk, or return results when the range is exhausted (lines 277-279).
ChunkReturns ==
    /\ optimized_pc = "chunk"
    /\ \E chunk_result \in OptimizedResults(chunks[Len(chunks)]) :
          /\ chunk_results' = Append(chunk_results, chunk_result)
          /\ batch_results' = batch_results \o chunk_result
    /\ chunk_start' = Step(chunk_start, preferred_batch_size)
    /\ IF chunk_start' < Len(optimized_batch)
       THEN /\ chunks' = Append(chunks, Slice(optimized_batch, chunk_start',
                                              preferred_batch_size))
            /\ UNCHANGED <<optimized_pc, optimized_returned>>
       ELSE /\ optimized_returned' = [done |-> TRUE, results |-> batch_results']
            /\ optimized_pc' = "idle"
            /\ UNCHANGED chunks
    /\ UNCHANGED <<preferred_batch_size, optimized_batch>>
    /\ UNCHANGED <<interface_vars, detector_vars, binary64_vars, pool_vars>>

BatchOptimizedNext ==
    \/ \E size \in 1..MaxPreferred : OptimizedConstruct(size)
    \/ \E data \in OptimizedBatches : OptimizedDetectBatch(data)
    \/ WholeReturns
    \/ ChunkReturns

\* One detect_batch call on one BatchOptimizedDetector.
BatchOptimizedSpec == InitBatch /\ [][BatchOptimizedNext]_vars

\* ------------------------------------------- the detector: binary64 numbers
\* float() and numpy compute in IEEE 754 binary64.  A natural number of any
\* size is the sequence of its binary digits, the lowest first and the highest
\* a 1; <<>> is zero.
Trim(b) ==
    SubSeq(b, 1, Max(0, CHOOSE n \in 0..Len(b) :
                            /\ n = 0 \/ b[n] = 1
                            /\ \A i \in (n + 1)..Len(b) : b[i] = 0))

RECURSIVE FromNat(_)
FromNat(n) == IF n = 0 THEN <<>> ELSE <<n % 2>> \o FromNat(n \div 2)

BitAt(b, i) == IF i <= Len(b) THEN b[i] ELSE 0

\* The loops below halve their range instead of counting through it, and
\* look at the state after the first half before they start the second, so
\* that TLC's evaluation nests by halves and not by digits.
RECURSIVE AddRange(_, _, _, _, _)
AddRange(a, b, lo, hi, st) ==
    IF lo = hi
    THEN [bits |-> Append(st.bits, (BitAt(a, lo) + BitAt(b, lo) + st.carry) % 2),
          carry |-> (BitAt(a, lo) + BitAt(b, lo) + st.carry) \div 2]
    ELSE LET Rest(first) ==
                 IF first.carry \in {0, 1}
                 THEN AddRange(a, b, (lo + hi) \div 2 + 1, hi, first)
                 ELSE first
         IN  Rest(AddRange(a, b, lo, (lo + hi) \div 2, st))

BAdd(a, b) ==
    LET Carried(st) == IF st.carry = 1 THEN Append(st.bits, 1) ELSE st.bits
    IN  IF a = <<>> THEN b
        ELSE IF b = <<>> THEN a
        ELSE Carried(AddRange(a, b, 1, Max(Len(a), Len(b)), [bits |-> <<>>, carry |-> 0]))

\* a - b for a >= b.
RECURSIVE SubRange(_, _, _, _, _)
SubRange(a, b, lo, hi, st) ==
    IF lo = hi
    THEN [bits |-> Append(st.bits, (BitAt(a, lo) - BitAt(b, lo) - st.borrow + 2) % 2),
          borrow |-> IF BitAt(a, lo) - BitAt(b, lo) - st.borrow < 0 THEN 1 ELSE 0]
    ELSE LET Rest(first) ==
                 IF first.borrow \in {0, 1}
                 THEN SubRange(a, b, (lo + hi) \div 2 + 1, hi, first)
                 ELSE first
         IN  Rest(SubRange(a, b, lo, (lo + hi) \div 2, st))

BSub(a, b) ==
    IF b = <<>> THEN a
    ELSE Trim(SubRange(a, b, 1, Len(a), [bits |-> <<>>, borrow |-> 0]).bits)

BLess(a, b) ==
    \/ Len(a) < Len(b)
    \/ /\ Len(a) = Len(b)
       /\ \E i \in 1..Len(a) :
             /\ a[i] < b[i]
             /\ \A j \in (i + 1)..Len(a) : a[j] = b[j]

\* a * 2^k and a \div 2^k.
BShl(a, k) == IF a = <<>> THEN <<>> ELSE [i \in 1..k |-> 0] \o a

BShr(a, k) == SubSeq(a, k + 1, Len(a))

\* b times the digits lo..hi of a.
RECURSIVE MulRange(_, _, _, _)
MulRange(a, b, lo, hi) ==
    IF lo = hi
    THEN IF a[lo] = 1 THEN BShl(b, lo - 1) ELSE <<>>
    ELSE BAdd(MulRange(a, b, lo, (lo + hi) \div 2), MulRange(a, b, (lo + hi) \div 2 + 1, hi))

BMul(a, b) == IF a = <<>> \/ b = <<>> THEN <<>> ELSE MulRange(a, b, 1, Len(a))

\* Long division over the digits hi down to lo of a: the quotient and the
\* remainder so far.
RECURSIVE DivRange(_, _, _, _, _)
DivRange(a, b, hi, lo, st) ==
    IF lo = hi
    THEN LET Down(r) ==
                 IF BLess(r, b)
                 THEN [quotient |-> <<0>> \o st.quotient, remainder |-> r]
                 ELSE [quotient |-> <<1>> \o st.quotient, remainder |-> BSub(r, b)]
         IN  Down(Trim(<<a[lo]>> \o st.remainder))
    ELSE LET Rest(first) ==
                 IF Len(first.quotient) >= 0
                 THEN DivRange(a, b, (lo + hi) \div 2, lo, first)
                 ELSE first
         IN  Rest(DivRange(a, b, hi, (lo + hi) \div 2 + 1, st))

BDivMod(a, b) ==
    LET Trimmed(st) == [quotient |-> Trim(st.quotient), remainder |-> st.remainder]
    IN  IF a = <<>>
        THEN [quotient |-> <<>>, remainder |-> <<>>]
        ELSE Trimmed(DivRange(a, b, Len(a), 1, [quotient |-> <<>>, remainder |-> <<>>]))

\* The integer square root, digit by digit, over the powers 4^hi down to
\* 4^lo: the root so far and what is left of the number.
RECURSIVE SqrtRange(_, _, _)
SqrtRange(hi, lo, st) ==
    IF lo = hi
    THEN LET Tried(t) ==
                 IF BLess(st.rest, t)
                 THEN [rest |-> st.rest, root |-> BShr(st.root, 1)]
                 ELSE [rest |-> BSub(st.rest, t),
                       root |-> BAdd(BShr(st.root, 1), BShl(<<1>>, 2 * lo))]
         IN  Tried(BAdd(st.root, BShl(<<1>>, 2 * lo)))
    ELSE LET Rest(first) ==
                 IF Len(first.root) >= 0
                 THEN SqrtRange((lo + hi) \div 2, lo, first)
                 ELSE first
         IN  Rest(SqrtRange(hi, (lo + hi) \div 2 + 1, st))

BSqrt(a) ==
    LET Named(st) == [root |-> st.root, remainder |-> st.rest]
    IN  IF a = <<>>
        THEN [root |-> <<>>, remainder |-> <<>>]
        ELSE Named(SqrtRange((Len(a) - 1) \div 2, 0, [rest |-> a, root |-> <<>>]))

\* The digits of a binary64 significand.
Precision == 53

\* A binary64 number is (-1)^neg * m * 2^e with m odd or zero and of at most
\* 53 digits (the numbers here are far from the ends of the exponent range).
Odd(neg, m, e) ==
    IF \A i \in 1..Len(m) : m[i] = 0
    THEN [neg |-> FALSE, m |-> <<>>, e |-> 0]
    ELSE LET low == CHOOSE i \in 1..Len(m) : m[i] = 1 /\ \A j \in 1..(i - 1) : m[j] = 0
         IN  [neg |-> neg, m |-> Trim(BShr(m, low - 1)), e |-> e + low - 1]

\* Round to nearest, ties to even: m * 2^e, plus something below the last
\* digit of m when sticky, as a binary64 number.
RoundTo(neg, m, e, sticky) ==
    IF Len(m) <= Precision
    THEN Odd(neg, m, e)
    ELSE LET drop == Len(m) - Precision
             up == /\ m[drop] = 1
                   /\ \/ sticky
                      \/ \E i \in 1..(drop - 1) : m[i] = 1
                      \/ m[drop + 1] = 1
         IN  Odd(neg, IF up THEN BAdd(BShr(m, drop), <<1>>) ELSE BShr(m, drop), e + drop)

FNeg(a) == IF a.m = <<>> THEN a ELSE [a EXCEPT !.neg = ~a.neg]

FAbs(a) == [a EXCEPT !.neg = FALSE]

\* The exact sum of two binary64 numbers: sign, digits and exponent.
ExactSum(a, b) ==
    LET Aligned(e) ==
            LET Signed(x, y) ==
                    IF a.neg = b.neg THEN [neg |-> a.neg, m |-> BAdd(x, y), e |-> e]
                    ELSE IF BLess(x, y) THEN [neg |-> b.neg, m |-> BSub(y, x), e |-> e]
                    ELSE [neg |-> a.neg, m |-> BSub(x, y), e |-> e]
            IN  Signed(BShl(a.m, a.e - e), BShl(b.m, b.e - e))
    IN  Aligned(Min(a.e, b.e))

FAdd(a, b) ==
    LET Rounded(s) == RoundTo(s.neg, s.m, s.e, FALSE)
    IN  Rounded(ExactSum(a, b))

FSub(a, b) == FAdd(a, FNeg(b))

FMul(a, b) == RoundTo(a.neg # b.neg, BMul(a.m, b.m), a.e + b.e, FALSE)

\* a / b for b # 0: enough digits of the quotient to round, the remainder
\* making it sticky.
FDiv(a, b) ==
    LET Shifted(k) ==
            LET Rounded(d) ==
                    RoundTo(a.neg # b.neg, d.quotient, a.e - b.e - k, d.remainder # <<>>)
            IN  Rounded(BDivMod(BShl(a.m, k), b.m))
    IN  Shifted(Max(0, Precision + 2 + Len(b.m) - Len(a.m)))

\* The square root of a >= 0.
FSqrt(a) ==
    LET Shifted(k) ==
            LET Rounded(s) == RoundTo(FALSE, s.root, (a.e - k) \div 2, s.remainder # <<>>)
            IN  Rounded(BSqrt(BShl(a.m, k)))
    IN  IF a.m = <<>> THEN a
        ELSE Shifted(2 * (Precision + 2) + (IF a.e % 2 = 0 THEN 0 ELSE 1))

\* a < b.
FLess(a, b) ==
    LET Negative(s) == s.neg /\ Trim(s.m) # <<>>
    IN  Negative(ExactSum(a, FNeg(b)))

\* float(n) of an int, and float("n/d") of the decimal that n / d is.
FromInt(n) == Odd(n < 0, FromNat(Abs(n)), 0)

Float(n, d) == FDiv(FromInt(n), FromInt(d))

\* -------------------------------------- the detector: z-score in binary64
\* DetectZscoreAnomaly above computes with exact fractions, which is what
\* binary64 does on the samples of DetectorSpec.  Here the method is computed
\* as numpy computes it, each operation rounded, on values such as 0.1 that
\* binary64 does not hold exactly.
\* np.sum of fewer than 8 numbers: one after the other.
RECURSIVE NpSum(_)
NpSum(a) == IF Len(a) = 1 THEN a[1] ELSE FAdd(NpSum(SubSeq(a, 1, Len(a) - 1)), a[Len(a)])

NpMean(a) == FDiv(NpSum(a), FromInt(Len(a)))

\* np.std: the root of the mean of the squared deviations from the mean.
NpStd(a) ==
    LET Around(mean) ==
            LET Squared(x) == FMul(x, x)
            IN  FSqrt(FDiv(NpSum([i \in 1..Len(a) |-> Squared(FSub(a[i], mean))]),
                           FromInt(Len(a))))
    IN  Around(NpMean(a))

\* _detect_zscore_anomaly on the window whose last value is the candidate.
DetectZscoreAnomalyBinary64(window_data, value, std_dev_threshold) ==
    LET Guarded(mean_val, std_val) ==
            IF std_val.m = <<>>
            THEN [fires |-> FALSE, std_zero |-> TRUE]
            ELSE [fires |-> FLess(std_dev_threshold, FAbs(FDiv(FSub(value, mean_val), std_val))),
                  std_zero |-> FALSE]
    IN  IF Len(window_data) < 2
        THEN [fires |-> FALSE, std_zero |-> FALSE]
        ELSE Guarded(NpMean(Prior(window_data)), NpStd(Prior(window_data)))

\* The longest window of reported values.
MaxReported == 6

\* What the metric reports: 0.1 or 10.
Reports == {[n |-> 1, d |-> 10], [n |-> 10, d |-> 1]}

\* std_dev_threshold, 3.0 unless configured.
StdDevThreshold == Float(3, 1)

\* The metric reports x: float(x) enters the deque, and _detect_zscore_anomaly
\* is called with the deque as an array and that value.
ZscoreOnReported(x) ==
    /\ Len(reported) < MaxReported
    /\ LET Pushed(value) ==
               LET Scored(window_data) ==
                       /\ reported' = window_data
                       /\ zscore_returned'
                              = DetectZscoreAnomalyBinary64(window_data, value, StdDevThreshold)
               IN  Scored(Append(reported, value))
       IN  Pushed(Float(x.n, x.d))
    /\ UNCHANGED <<interface_vars, detector_vars, optimized_vars, pool_vars>>

Binary64Next == \E x \in Reports : ZscoreOnReported(x)

\* The z-score method on the growing window of one metric.
Binary64Spec == InitBatch /\ [][Binary64Next]_vars

\* ======================================================= ThreadPoolDetector
\* ThreadPoolDetector.detect, base.py lines 232-237, hands each call to the
\* executor, whose threads run detector.detect on the one wrapped detector.
\* Nothing in detect or _detect takes a lock, so a thread may be switched
\* out between any two statements; the deque's append and the copy made by
\* np.array are each atomic.
\* Number of detect calls handed to the executor.
MaxPoolSamples == 4

\* The values of the metric in the samples.
PoolValues == {0, 1}

\* statistical.py lines 74-78 on thread t: the value of the sample enters the
\* deque (window_size is larger than the number of samples).
PoolPush(t, value) ==
    /\ pool_pc[t] = "idle"
    /\ Len(pool_window) < MaxPoolSamples
    /\ pool_window' = Append(pool_window, value)
    /\ pool_arrival' = [pool_arrival EXCEPT ![t] = Len(pool_window) + 1]
    /\ pool_pc' = [pool_pc EXCEPT ![t] = "pushed"]
    /\ UNCHANGED pool_scored
    /\ UNCHANGED <<interface_vars, detector_vars, optimized_vars, binary64_vars>>

\* statistical.py lines 84 and 121 on thread t: _detect_anomaly_for_metric
\* copies the deque into window_data and scores the sample against it; the
\* call then returns.
PoolScore(t) ==
    /\ pool_pc[t] = "pushed"
    /\ pool_scored' = Append(pool_scored, [arrival |-> pool_arrival[t],
                                           window_data |-> pool_window])
    /\ pool_arrival' = [pool_arrival EXCEPT ![t] = 0]
    /\ pool_pc' = [pool_pc EXCEPT ![t] = "idle"]
    /\ UNCHANGED pool_window
    /\ UNCHANGED <<interface_vars, detector_vars, optimized_vars, binary64_vars>>

ThreadPoolNext ==
    \/ \E t \in PoolThreads : \E value \in PoolValues : PoolPush(t, value)
    \/ \E t \in PoolThreads : PoolScore(t)

\* Detect calls on one detector behind a ThreadPoolDetector with two threads.
ThreadPoolSpec == InitBatch /\ [][ThreadPoolNext]_vars

\* =================================================================== claims
Delivered == Range(sink_log)

Enqueued == 1..(next_event - 1)

\* C1: in batch mode, with the periodic flush task running and a sink that fails
\* a finite number of times and then succeeds, every anomaly that was enqueued
\* is eventually accepted by the sink.
C1_NoEventLost ==
    \A e \in 1..MaxEvents : (batch_mode /\ e \in Enqueued) ~> (e \in Delivered)

\* Every anomaly was enqueued, the sink has failed as often as it may, and every
\* anomaly has been accepted all the same.
C1_Witness ==
    /\ batch_mode
    /\ fails_left = 0
    /\ next_event = MaxEvents + 1
    /\ Delivered = 1..MaxEvents

\* C2: the sink accepts every enqueued anomaly at most once, wherever in a batch
\* a send fails.
C2_AcceptedOnce ==
    \A i, j \in 1..Len(sink_log) : i # j => sink_log[i] # sink_log[j]

\* C3: the sink accepts the anomalies in the order they were enqueued (ids
\* count the enqueues), also across failed flushes.
C3_AcceptedInEnqueueOrder ==
    \A i, j \in 1..Len(sink_log) : i < j => sink_log[i] <= sink_log[j]

\* C7: when the send of task t's flush fails, the swapped-out batch is put back
\* in front of what the buffer holds by then.
C7_FailedBatchPrepended ==
    [][\A t \in Tasks :
          (pc[t] = "send" /\ pc'[t] # "send" /\ fails_left' < fails_left)
              => batch_buffer' = batch_to_send[t] \o batch_buffer]_vars

\* The places that hold anomaly e: the pending queue and the in-flight batches.
HeldIn(e) ==
    (IF e \in Range(batch_buffer) THEN 1 ELSE 0)
        + Cardinality({t \in Tasks : pc[t] = "send" /\ e \in Range(batch_to_send[t])})

\* The step in which the pending sink call of task t's flush raises.
FlushFails(t) == pc[t] = "send" /\ pc'[t] # "send" /\ fails_left' < fails_left

\* Sequence part occurs in sequence whole as a contiguous run.
OccursIn(part, whole) ==
    \E i \in 0..(Len(whole) - Len(part)) :
        \A k \in 1..Len(part) : whole[i + k] = part[k]

\* C4: with a sink that never fails, when cleanup returns, every anomaly enqueued
\* before cleanup was called has been accepted and the pending queue is empty.
\* Stated for the returns at which no other task is sending and nothing was
\* enqueued since cleanup was called, where nothing but cleanup itself can be
\* the cause of a miss.
C4_CleanupDeliversAll ==
    [][\A w \in Workers :
          (/\ batch_mode
           /\ op[w] = "cleanup" /\ pc[w] \in {"await_task", "send"}
           /\ pc'[w] = "idle"
           /\ fails_left' = MaxFail
           /\ next_event' = entry[w].events
           /\ \A t \in Tasks \ {w} : pc'[t] \notin {"send", "direct"})
              => /\ batch_buffer' = <<>>
                 /\ \A e \in 1..(entry[w].events - 1) : e \in Range(sink_log')]_vars

\* C5: while an enqueue-triggered flush is in flight beside the flush task, every
\* enqueued anomaly the sink has not accepted is held in exactly one place, the
\* pending queue or one in-flight batch.
C5_HeldInOnePlace ==
    (batch_mode /\ \E w \in Workers : pc[w] = "send" /\ op[w] = "ingest_anomaly")
        => \A e \in Enqueued \ Delivered : HeldIn(e) = 1

\* C5, the part the code keeps: as long as the flush task has not been ended by
\* cleanup, every undelivered anomaly is held in exactly one place, and a batch
\* in flight is never changed by an enqueue.
C5_HeldWhileTaskRuns ==
    /\ [](batch_mode /\ pc[Timer] # "done"
            => \A e \in Enqueued \ Delivered : HeldIn(e) = 1)
    /\ [][\A t \in Tasks : pc[t] = "send" /\ pc'[t] = "send"
            => batch_to_send'[t] = batch_to_send[t]]_vars

\* C6 as claimed: the ingest_anomaly that brings the pending queue to
\* max_batch_size flushes before it returns, and when its send succeeded and
\* nothing else was enqueued meanwhile the pending queue is empty at its return.
C6_EmptyAfterOwnFlush ==
    [][\A w \in Workers :
          (/\ op[w] = "ingest_anomaly" /\ pc[w] = "send" /\ pc'[w] = "idle"
           /\ result'[w] = "flushed"
           /\ next_event' = entry[w].events + 1)
              => batch_buffer' = <<>>]_vars

\* C6 as amended: the ingest_anomaly that brings the pending queue to
\* max_batch_size swaps the queue out and starts the flush in the same step,
\* before it returns; and when its send succeeded, no other send failed
\* meanwhile and nothing else was enqueued meanwhile, the pending queue is empty
\* at its return.
C6_SizeTriggerFlushes ==
    /\ [][\A w \in Workers :
            (/\ batch_mode
             /\ IngestAnomaly(w) \/ IngestEvent(w)
             /\ Len(batch_buffer) + 1 >= MaxBatchSize)
                => /\ pc'[w] = "send"
                   /\ batch_to_send'[w] = Append(batch_buffer, next_event)
                   /\ batch_buffer' = <<>>]_vars
    /\ [][\A w \in Workers :
            (/\ op[w] = "ingest_anomaly" /\ pc[w] = "send" /\ pc'[w] = "idle"
             /\ result'[w] = "flushed"
             /\ next_event' = entry[w].events + 1
             /\ fails_left' = entry[w].fails)
                => batch_buffer' = <<>>]_vars

\* max_batch_size enqueues and nothing else: the last one has flushed and
\* returned, and the pending queue is empty.
C6_Witness ==
    /\ batch_mode
    /\ next_event = MaxBatchSize + 1
    /\ fails_left = MaxFail
    /\ sink_log = Consecutive(1, MaxBatchSize)
    /\ batch_buffer = <<>>
    /\ \E w \in Workers :
          pc[w] = "idle" /\ op[w] = "ingest_anomaly" /\ result[w] = "flushed"

\* C8: in batch mode no call ends by raising, and a failing send of a flush
\* leaves the batch in the pending queue, the worker's call returned and the
\* flush task back in its sleep.
C8_SendFailureContained ==
    /\ [](batch_mode => \A w \in Workers : result[w] # "raised")
    /\ [][\A t \in Tasks :
            (batch_mode /\ FlushFails(t))
                => /\ OccursIn(batch_to_send[t], batch_buffer')
                   /\ t = Timer => pc'[t] = "sleep"
                   /\ t \in Workers => pc'[t] = "idle" /\ result'[t] = "requeued"]_vars

\* A worker's call has returned after the send of its flush failed, and the
\* batch is back in the pending queue.
C8_Witness ==
    /\ batch_mode
    /\ \E w \in Workers :
          /\ pc[w] = "idle" /\ result[w] = "requeued"
          /\ op[w] \in {"ingest_anomaly", "ingest_anomalies", "flush"}
    /\ batch_buffer # <<>>
    /\ fails_left < MaxFail

\* C9: with the queue always below max_batch_size and no flush() call, every
\* enqueued anomaly is eventually accepted by the sink, through the flush task
\* alone, which never ends, failed attempts included.
C9_TimerDelivers ==
    /\ \A e \in 1..MaxEvents : (e \in Enqueued) ~> (e \in Delivered)
    /\ [](pc[Timer] \in {"sleep", "send"})

\* The flush task has delivered every anomaly although a flush attempt failed.
C9_Witness ==
    /\ fails_left < MaxFail
    /\ next_event = MaxEvents + 1
    /\ Delivered = 1..MaxEvents
    /\ pc[Timer] = "sleep"

\* C10 as claimed: without batch mode the pending queue is always empty, there
\* is no flush task, and an anomaly reaches the sink only after every anomaly
\* ingested before it.
C10_DirectInIngestOrder ==
    /\ [](~batch_mode => batch_buffer = <<>> /\ pc[Timer] = "absent")
    /\ [][~batch_mode
            => \A e \in sink_calls' \ sink_calls :
                  \A earlier \in 1..(e - 1) : earlier \in sink_calls']_vars

\* C10 as amended: without batch mode the pending queue is always empty, there
\* is no flush task and no flush, every ingest call hands its first anomaly to
\* the sink in the step of the call, and a later anomaly of an ingest_anomalies
\* list is handed over only once the sink has accepted the one before it.
C10_DirectSend ==
    /\ [](~batch_mode
            => /\ batch_buffer = <<>>
               /\ pc[Timer] = "absent"
               /\ \A t \in Tasks : pc[t] # "send")
    /\ [][~batch_mode
            => /\ next_event' > next_event => next_event \in sink_calls'
               /\ \A e \in sink_calls' \ sink_calls :
                     \/ e = next_event
                     \/ \E t \in Workers :
                           /\ idx'[t] = idx[t] + 1
                           /\ batch_to_send[t][idx'[t]] = e
                           /\ sink_log' = Append(sink_log, batch_to_send[t][idx[t]])]_vars

\* Without batch mode every anomaly was ingested, handed to the sink and
\* accepted.
C10_Witness ==
    /\ ~batch_mode
    /\ next_event = MaxEvents + 1
    /\ sink_calls = 1..MaxEvents
    /\ Len(sink_log) = MaxEvents

\* C11: within one flush the sink is invoked with the anomalies of the batch
\* from the oldest enqueued to the newest: the anomalies the flush of task t
\* has handed to the sink so far are in enqueue order (ids count the enqueues).
C11_FlushInEnqueueOrder ==
    \A t \in Tasks :
        pc[t] = "send"
            => \A i, j \in 1..idx[t] :
                  i < j => batch_to_send[t][i] < batch_to_send[t][j]

\* The values pushed into the window of metric m since initialize, and the last
\* n values of a sequence.
PushedValues(m) == [i \in 1..Len(observed[m]) |-> observed[m][i].value]

LastOf(s, n) == SubSeq(s, Max(1, Len(s) - n + 1), Len(s))

\* C12: the window of every configured metric never holds more than window_size
\* values, and it holds the values pushed for that metric, the last window_size
\* of them once that many were pushed, in arrival order.
C12_WindowBounded ==
    \A m \in DOMAIN windows :
        /\ Len(windows[m]) <= config.window_size
        /\ windows[m] = LastOf(PushedValues(m), config.window_size)

\* Detect calls alone pushed more than window_size values for a metric, and its
\* window is full.
C12_Witness ==
    \E m \in DOMAIN windows :
        /\ Len(observed[m]) > config.window_size
        /\ \A i \in 1..Len(observed[m]) : observed[m][i].by = "detect"
        /\ Len(windows[m]) = config.window_size
        /\ windows[m][1] # PushedValues(m)[1]

\* The number of values detect calls pushed for metric m since initialize.
DetectObservations(m) ==
    Cardinality({i \in 1..Len(observed[m]) : observed[m][i].by = "detect"})

\* The metrics an event lists in affected_metrics and in z_scores.
AffectedMetrics(event) == Range(event.affected_metrics)

ZScoreKeys(event) == {event.z_scores[i][1] : i \in 1..Len(event.z_scores)}

\* C13: an event returned by detect lists no metric that detect calls have
\* observed fewer than min_samples times, the current sample included.
C13_NoFireBelowMinSamples ==
    (returned.call = "detect" /\ returned.outcome = "event")
        => \A m \in AffectedMetrics(returned.events[1]) \cup ZScoreKeys(returned.events[1]) :
              DetectObservations(m) >= config.min_samples

\* C13, the part the code keeps: an event lists no metric whose window holds
\* fewer than min_samples values, so none with fewer than min_samples
\* observations as long as no health check has pushed into its window.
C13_NoFireBelowMinSamplesInWindow ==
    (returned.call = "detect" /\ returned.outcome = "event")
        => \A m \in AffectedMetrics(returned.events[1]) \cup ZScoreKeys(returned.events[1]) :
              /\ Len(windows[m]) >= config.min_samples
              /\ DetectObservations(m) = Len(observed[m])
                    => DetectObservations(m) >= config.min_samples

\* What the claims call the detection state and the counters.
DetectionState == <<windows, baseline_stats>>

C15_ReinitializeResets ==
    [][\A cfg \in Configs :
          (Initialize(cfg) /\ inits > 0)
              => /\ windows' = [m \in Range(cfg.metrics) |-> <<>>]
                 /\ baseline_stats' = [m \in MetricNames |-> NoStats]
                 /\ detector_metrics' = NoCounts]_vars

\* C16: health_check changes neither a rolling window nor a baseline statistic,
\* whatever the configured metrics are named.
C16_HealthCheckKeepsState ==
    [][HealthCheck => UNCHANGED DetectionState]_vars

\* The <<metric, method>> pairs an event records: detection_methods lists the
\* methods in the order affected_metrics lists the metrics.
Evidence(event) ==
    {<<event.affected_metrics[i], event.detection_methods[i]>> :
        i \in 1..Len(event.affected_metrics)}

\* C17: an event returned by detect records, for each metric it lists, every
\* enabled method that fires on that metric's window and the sample's value,
\* not only the first.
C17_AllFiringMethodsRecorded ==
    (returned.call = "detect" /\ returned.outcome = "event")
        => \A m \in AffectedMetrics(returned.events[1]) :
              \A method \in MethodsFiring(windows[m], config) :
                  <<m, method>> \in Evidence(returned.events[1])

\* The configured metrics of sample data on which an enabled method fires, the
\* value being pushed into the metric's window wins[metric] first.
FiredMetrics(data, cfg, wins) ==
    {m \in Range(cfg.metrics) :
        /\ InSample(m, data)
        /\ IsNumeric(data[m])
        /\ ScoresWindow(Push(wins[m], data[m].value, cfg.window_size), cfg)
        /\ MethodsFiring(Push(wins[m], data[m].value, cfg.window_size), cfg) # {}}

\* C18: an accepted detect call returns one event exactly when a method fired
\* for a configured metric of the sample, the event lists exactly the metrics
\* that fired, and the call returns no event when nothing fired.
C18_OneEventIffFired ==
    [][\A data \in Samples :
          (Detect(data) /\ initialized)
              => /\ returned'.outcome = "event"
                    <=> FiredMetrics(data, config, windows) # {}
                 /\ returned'.outcome = "event"
                    => /\ Len(returned'.events) = 1
                       /\ AffectedMetrics(returned'.events[1])
                              = FiredMetrics(data, config, windows)
                 /\ returned'.outcome # "event" => returned'.events = <<>>]_vars

\* C18, the part the code keeps: the same for the samples all of whose values
\* are numbers.
C18_OneEventIffFiredNumeric ==
    [][\A data \in Samples :
          (/\ Detect(data) /\ initialized
           /\ \A m \in MetricNames : InSample(m, data) => IsNumeric(data[m]))
              => /\ returned'.outcome = "event"
                    <=> FiredMetrics(data, config, windows) # {}
                 /\ returned'.outcome = "event"
                    => /\ Len(returned'.events) = 1
                       /\ AffectedMetrics(returned'.events[1])
                              = FiredMetrics(data, config, windows)
                 /\ returned'.outcome # "event" => returned'.events = <<>>]_vars

\* LOW < MEDIUM < HIGH < CRITICAL.
SeverityRank(severity) ==
    CASE severity = "low" -> 0
      [] severity = "medium" -> 1
      [] severity = "high" -> 2
      [] severity = "critical" -> 3

\* The squares of the thresholds 3.5, 4 and 5.
SeverityThresholdsSq == {Rational(49, 4), Rational(16, 1), Rational(25, 1)}

\* The largest score an event reports.
EventMaxScoreSq(event) ==
    RMax([i \in 1..Len(event.z_scores) |-> event.z_scores[i][2]])

\* Sample milder holds, under the keys of sample data, values that lie between
\* the values of the metric's window and the value of data: the candidate of
\* data is at least as extreme, for every metric, as the one of milder.
LessExtreme(milder, data, wins) ==
    \A m \in MetricNames :
        /\ milder[m].kind = data[m].kind
        /\ (InSample(m, data) /\ milder[m].value # data[m].value)
              => /\ IsNumeric(data[m])
                 /\ wins[m] # <<>>
                 /\ \/ \A i \in 1..Len(wins[m]) :
                          wins[m][i] <= milder[m].value /\ milder[m].value < data[m].value
                    \/ \A i \in 1..Len(wins[m]) :
                          wins[m][i] >= milder[m].value /\ milder[m].value > data[m].value

\* C19: the severity of an event is the number of the thresholds 3.5, 4 and 5
\* its largest score exceeds, and for one metric history a more extreme sample
\* never gets a lower severity than a less extreme one that also yields an
\* event.
C19_SeverityMonotone ==
    /\ [](returned.call = "detect" /\ returned.outcome = "event"
            => SeverityRank(returned.events[1].severity)
                  = Cardinality({t \in SeverityThresholdsSq :
                                    RLess(t, EventMaxScoreSq(returned.events[1]))}))
    /\ [][\A data, milder \in Samples :
            (/\ Detect(data) /\ initialized
             /\ returned'.outcome = "event"
             /\ LessExtreme(milder, data, windows)
             /\ DetectCall(milder, config, DetectorState).outcome = "event")
                => SeverityRank(DetectCall(milder, config, DetectorState).events[1].severity)
                      <= SeverityRank(returned'.events[1].severity)]_vars

\* C19, the part the code keeps: the severity of an event is the number of the
\* thresholds 3.5, 4 and 5 that the largest score it reports exceeds.
C19_SeverityByThresholds ==
    (returned.call = "detect" /\ returned.outcome = "event")
        => SeverityRank(returned.events[1].severity)
              = Cardinality({t \in SeverityThresholdsSq :
                                RLess(t, EventMaxScoreSq(returned.events[1]))})

\* Rational r lies in [0, 1].
InUnitInterval(r) == r.den > 0 /\ 0 <= r.num /\ r.num <= r.den

\* C20: the confidence of every event detect or detect_batch returns lies in
\* [0, 1] (the model keeps the square of the confidence, which does exactly when
\* the confidence, a product of factors that are not negative, does).
C20_ConfidenceInUnitInterval ==
    \A i \in 1..Len(returned.events) : InUnitInterval(returned.events[i].confidence)

\* An event for two metrics at once on full windows with a score above 5: the
\* boosted confidence is capped at 1.
C20_Witness ==
    /\ returned.call = "detect"
    /\ returned.outcome = "event"
    /\ Len(returned.events[1].affected_metrics) > 1
    /\ RLess(Rational(25, 1), EventMaxScoreSq(returned.events[1]))
    /\ returned.events[1].confidence.num = returned.events[1].confidence.den

\* A new instance after initialize(cfg): base.py lines 17-28, statistical.py
\* lines 52-55.
FreshDetector(cfg) ==
    [windows |-> [m \in Range(cfg.metrics) |-> <<>>],
     baseline_stats |-> [m \in MetricNames |-> NoStats],
     detector_metrics |-> NoCounts,
     observed |-> [m \in MetricNames |-> <<>>],
     fed |-> <<>>]

\* What a caller sees of a detect call: whether it returned an event, and the
\* event's severity, confidence and affected_metrics.
Visible(call) ==
    [outcome |-> call.outcome,
     events |-> [i \in 1..Len(call.events) |->
                    [severity |-> call.events[i].severity,
                     confidence |-> call.events[i].confidence,
                     affected_metrics |-> call.events[i].affected_metrics]]]

\* The detect calls on the samples, one after the other, on a detector in state
\* st: what each call returns and the state it leaves.
RECURSIVE Replay(_, _, _)
Replay(samples, cfg, st) ==
    IF samples = <<>>
    THEN <<>>
    ELSE LET Then(c) ==
                 <<c>>
                     \o Replay(Tail(samples), cfg,
                               [windows |-> c.windows,
                                baseline_stats |-> c.baseline_stats,
                                detector_metrics |-> c.detector_metrics,
                                observed |-> c.observed, fed |-> c.fed])
         IN  Then(DetectCall(Head(samples), cfg, st))

\* The result of the last of the detect calls a second new instance makes.
LastReplayed(results) == results[Len(results)]

\* C22: what detect returns on an instance initialized once (an event or none,
\* and the event's severity, confidence and affected_metrics) is what a second
\* new instance with the same configuration returns at the end of the same
\* sequence of samples: nothing but the configuration and the samples
\* influences it.
C22_Deterministic ==
    (inits = 1 /\ returned.call = "detect" /\ returned.outcome # "not_initialized")
        => Visible(returned)
              = Visible(LastReplayed(Replay(fed, config, FreshDetector(config))))

\* C22, the part the code keeps: the same for an instance on which no health
\* check has run a detection since initialize.
C22_DeterministicUnprobed ==
    (/\ inits = 1 /\ returned.call = "detect" /\ returned.outcome # "not_initialized"
     /\ \A m \in MetricNames : DetectObservations(m) = Len(observed[m]))
        => Visible(returned)
              = Visible(LastReplayed(Replay(fed, config, FreshDetector(config))))

\* The configured metrics for which sample data holds no number.
Unusable(data, cfg) ==
    {m \in Range(cfg.metrics) : ~InSample(m, data) \/ ~IsNumeric(data[m])}

\* An accepted detect(data) did not raise, left alone the windows of the
\* metrics in skipped, pushed the sample's value into the window of every other
\* configured metric, and returned an event exactly when one of those fired.
SkipsOnly(skipped, data) ==
    /\ returned'.outcome # "raised"
    /\ \A m \in skipped : windows'[m] = windows[m]
    /\ \A m \in Range(config.metrics) \ skipped :
          windows'[m] = Push(windows[m], data[m].value, config.window_size)
    /\ returned'.outcome = "event"
          <=> \E m \in Range(config.metrics) \ skipped :
                 /\ ScoresWindow(windows'[m], config)
                 /\ MethodsFiring(windows'[m], config) # {}

\* C23: a configured metric whose value is missing from the sample or is not a
\* number is skipped, for that metric only: detect does not raise, the metric's
\* window is unchanged, and the other configured metrics of the sample are
\* pushed and scored.
C23_UnusableValueSkipped ==
    [][\A data \in Samples :
          (Detect(data) /\ initialized /\ Unusable(data, config) # {})
              => SkipsOnly(Unusable(data, config), data)]_vars

\* C23, the part the code keeps: the same for the metrics missing from the
\* sample.
C23_MissingValueSkipped ==
    [][\A data \in Samples :
          (/\ Detect(data) /\ initialized
           /\ Unusable(data, config) # {}
           /\ \A m \in Unusable(data, config) : ~InSample(m, data))
              => SkipsOnly(Unusable(data, config), data)]_vars

\* C24: an exception raised while a sample is scored is counted and re-raised:
\* the detect call adds exactly one to error_count and to processed_count and
\* nothing to anomaly_count, and it ends with the exception; a call whose
\* scoring raises nothing leaves error_count alone and returns.
C24_ExceptionCountedAndRaised ==
    [][\A data \in Samples :
          (Detect(data) /\ initialized)
              => IF DetectInner(data, config, windows, baseline_stats).raised
                 THEN /\ returned'.outcome = "raised"
                      /\ returned'.events = <<>>
                      /\ detector_metrics'
                            = [detector_metrics EXCEPT !.processed_count = @ + 1,
                                                       !.error_count = @ + 1]
                 ELSE /\ returned'.outcome # "raised"
                      /\ detector_metrics'.error_count = detector_metrics.error_count]_vars

\* A detect call raised after a method had fired for an earlier metric of the
\* sample: it is counted as an error and not as an anomaly.
C24_Witness ==
    /\ returned.call = "detect"
    /\ returned.outcome = "raised"
    /\ detector_metrics.error_count = 1
    /\ detector_metrics.anomaly_count = 0
    /\ detector_metrics.processed_count > 1
    /\ ScoresWindow(windows["cpu"], config)
    /\ MethodsFiring(windows["cpu"], config) # {}

\* The events of the calls that returned one, in call order.
RECURSIVE EventsOf(_)
EventsOf(calls) ==
    IF calls = <<>> THEN <<>>
    ELSE IF Head(calls).outcome = "event"
    THEN <<Head(calls).events[1]>> \o EventsOf(Tail(calls))
    ELSE EventsOf(Tail(calls))

\* The first call that raised, 0 when none did.
FirstRaised(calls) ==
    IF \E i \in 1..Len(calls) : calls[i].outcome = "raised"
    THEN CHOOSE i \in 1..Len(calls) :
            /\ calls[i].outcome = "raised"
            /\ \A j \in 1..(i - 1) : calls[j].outcome # "raised"
    ELSE 0

\* detect_batch did what the single detect calls do: it returned their events
\* in call order and left the state the last call leaves, or it ended with the
\* exception of the first call that raised, in the state that call leaves.
SameAsSingleCalls(calls) ==
    IF FirstRaised(calls) = 0
    THEN /\ returned'.outcome = "returned"
         /\ returned'.events = EventsOf(calls)
         /\ windows' = calls[Len(calls)].windows
         /\ detector_metrics' = calls[Len(calls)].detector_metrics
    ELSE /\ returned'.outcome = "raised"
         /\ returned'.events = <<>>
         /\ windows' = calls[FirstRaised(calls)].windows
         /\ detector_metrics' = calls[FirstRaised(calls)].detector_metrics

\* C25: detect_batch runs detect on the samples one after the other in input
\* order and returns exactly the events those single detect calls return, in
\* that order, the samples without an event left out (and it ends with the
\* exception of a detect call that raises).
C25_BatchAsSingleCalls ==
    [][\A data_batch \in Batches :
          (DetectBatch(data_batch) /\ initialized)
              => SameAsSingleCalls(Replay(data_batch, config, DetectorState))]_vars

\* A batch of two samples returned the events of both, and they differ.
C25_Witness ==
    /\ returned.call = "detect_batch"
    /\ returned.outcome = "returned"
    /\ Len(returned.events) = 2
    /\ returned.events[1] # returned.events[2]

\* A batch of two samples returned one event: the other sample gave none.
C25_WitnessOmitted ==
    /\ returned.call = "detect_batch"
    /\ returned.outcome = "returned"
    /\ Len(returned.events) = 1

\* The concatenation of a sequence of lists.
RECURSIVE Flatten(_)
Flatten(lists) == IF lists = <<>> THEN <<>> ELSE Head(lists) \o Flatten(Tail(lists))

\* C26: the chunks detect_batch hands to _detect_batch_optimized hold at most
\* preferred_batch_size samples each (exactly that many but for the last), they
\* are consecutive pieces of the batch in input order, and when detect_batch
\* has returned they cover the batch, every sample once, and the result is the
\* concatenation of the chunks' results in chunk order; a batch of at most
\* preferred_batch_size samples is handed over whole, as one chunk.
C26_ChunksCoverInOrder ==
    /\ \A k \in 1..Len(chunks) :
          /\ Len(chunks[k]) <= preferred_batch_size
          /\ k < Len(chunks) => Len(chunks[k]) = preferred_batch_size
    /\ Flatten(chunks) = SubSeq(optimized_batch, 1, Len(Flatten(chunks)))
    /\ Len(chunk_results) <= Len(chunks)
    /\ optimized_returned.done
          => /\ Flatten(chunks) = optimized_batch
             /\ Len(chunk_results) = Len(chunks)
             /\ optimized_returned.results = Flatten(chunk_results)
             /\ Len(optimized_batch) <= preferred_batch_size
                   => chunks = <<optimized_batch>>

\* A batch longer than preferred_batch_size was split into chunks the last of
\* which is shorter, several chunks returned events, and detect_batch returned.
C26_Witness ==
    /\ optimized_returned.done
    /\ preferred_batch_size > 1
    /\ Len(optimized_batch) > preferred_batch_size
    /\ Len(chunks[Len(chunks)]) < preferred_batch_size
    /\ Cardinality({k \in 1..Len(chunk_results) : chunk_results[k] # <<>>}) > 1

\* get_baseline_stats(metric), base.py lines 126-128: the stored statistics,
\* or a default without a count.
GetBaselineStats(metric) == baseline_stats[metric]

\* C27: after a detect call has returned, with an event or without, the
\* baseline statistics of every configured metric are those of the metric's
\* window as it is now (count = the number of values in the window, and their
\* sum), also for a window that holds fewer than min_samples values.
C27_BaselineReflectsWindow ==
    (returned.call = "detect" /\ returned.outcome \in {"event", "no_event"})
        => \A m \in DOMAIN windows :
              /\ GetBaselineStats(m).count = Len(windows[m])
              /\ GetBaselineStats(m).sum = Sum(windows[m])

\* C27, the part the code keeps: the same, and minimum, maximum, median and
\* variance with it, for the windows that hold at least min_samples values.
C27_BaselineReflectsScoredWindow ==
    (returned.call = "detect" /\ returned.outcome \in {"event", "no_event"})
        => \A m \in DOMAIN windows :
              Len(windows[m]) >= config.min_samples
                  => GetBaselineStats(m) = WindowStats(windows[m])

\* The candidate lies further from the mean of the prior values than threshold
\* times their standard deviation: |value - mean| > threshold * std, squared
\* and multiplied out (Len(prior) > 0).
BeyondThreshold(prior, value, threshold) ==
    DevNum(prior, value) * DevNum(prior, value) * threshold.den * threshold.den
        > threshold.num * threshold.num * VarNum(prior)

\* The score an event reports for metric m.
ZScoreOf(event, m) ==
    event.z_scores[CHOOSE i \in 1..Len(event.z_scores) : event.z_scores[i][1] = m][2]

\* detect(data) treated metric m as the claim says: m has min_samples
\* observations, this one included, and the values before it in its window have
\* a spread; then the z-score method fires, and detect returns one event that
\* lists m with a score above the threshold, exactly when the candidate lies
\* beyond the threshold.
ZscoreDecides(m, data) ==
    LET Decided(prior, value) ==
            IF BeyondThreshold(prior, value, config.std_dev_threshold)
            THEN /\ returned'.outcome = "event"
                 /\ Len(returned'.events) = 1
                 /\ m \in AffectedMetrics(returned'.events[1])
                 /\ <<m, "zscore">> \in Evidence(returned'.events[1])
                 /\ RLess(RMul(config.std_dev_threshold, config.std_dev_threshold),
                          ZScoreOf(returned'.events[1], m))
            ELSE returned'.outcome = "event"
                    => <<m, "zscore">> \notin Evidence(returned'.events[1])
    IN  (/\ InSample(m, data) /\ IsNumeric(data[m])
         /\ DetectObservations(m) + 1 >= config.min_samples
         /\ windows[m] # <<>>
         /\ VarNum(LastOf(windows[m], config.window_size - 1)) # 0)
            => Decided(LastOf(windows[m], config.window_size - 1), data[m].value)

\* C28: once a metric has min_samples observations and the values before the
\* candidate in its window have a spread, the z-score method fires exactly when
\* the candidate's distance from their mean exceeds std_dev_threshold times
\* their standard deviation, and detect then returns one event that lists the
\* metric with a z-score above std_dev_threshold.
C28_ZscoreFiresExactly ==
    [][\A data \in Samples :
          (Detect(data) /\ initialized)
              => \A m \in Range(config.metrics) : ZscoreDecides(m, data)]_vars

\* C28, the part the code keeps: the same for the samples all of whose values
\* are numbers.
C28_ZscoreFiresExactlyNumeric ==
    [][\A data \in Samples :
          (/\ Detect(data) /\ initialized
           /\ \A m \in MetricNames : InSample(m, data) => IsNumeric(data[m]))
              => \A m \in Range(config.metrics) : ZscoreDecides(m, data)]_vars

\* C29: while the sink has raised nothing and a flush of the timer task and a
\* flush of an ingest call are both waiting for the sink, the sink accepts no
\* anomaly of the one flush as long as the other still has to deliver an
\* anomaly enqueued before it (ids count the enqueues): the anomalies reach the
\* sink in enqueue order.
C29_ConcurrentFlushesInOrder ==
    [][\A t, u \in Tasks :
          (/\ batch_mode /\ fails_left = MaxFail
           /\ Timer \in {t, u} /\ t # u
           /\ pc[t] = "send" /\ pc[u] = "send"
           /\ SinkOk(t))
              => \A k \in idx[u]..Len(batch_to_send[u]) :
                    batch_to_send[t][idx[t]] < batch_to_send[u][k]]_vars

\* The number of prior samples the claim requires of each method, and the
\* number of window values, the candidate included, that the code requires
\* (statistical.py lines 172, 186 and 202).
MinPrior(method) ==
    CASE method = "zscore" -> 2
      [] method = "mad" -> 3
      [] method = "iqr" -> 4

MinWindow(method) ==
    CASE method = "zscore" -> 2
      [] method = "mad" -> 3
      [] method = "iqr" -> 4

\* C30: no method is the one an event records for a metric when the metric has
\* fewer prior samples (the window without the candidate just pushed) than the
\* method needs: IQR 4, MAD 3, z-score 2.
C30_MinPriorSamples ==
    (returned.call = "detect" /\ returned.outcome = "event")
        => \A m \in AffectedMetrics(returned.events[1]) :
              \A method \in {"zscore", "iqr", "mad"} :
                  <<m, method>> \in Evidence(returned.events[1])
                      => Len(Prior(windows[m])) >= MinPrior(method)

\* C30, the part the code keeps: a method fires only on a window that holds,
\* the candidate included, the number of values its guard asks for, and the
\* z-score method only on 2 prior samples or more.
C30_MinWindowValues ==
    (returned.call = "detect" /\ returned.outcome = "event")
        => \A m \in AffectedMetrics(returned.events[1]) :
              \A method \in MethodsFiring(windows[m], config) :
                  /\ Len(windows[m]) >= MinWindow(method)
                  /\ method = "zscore" => Len(Prior(windows[m])) >= MinPrior(method)

\* ---------------------------------------------------------------- C21
\* Every value the metric reported before the last one is the same.
ConstantPrior ==
    /\ Len(reported) >= 2
    /\ \A i \in 1..(Len(reported) - 1) : reported[i] = reported[1]

\* C21: with a constant prior window the z-score method does not fire,
\* whatever the candidate is.
C21_ConstantWindowNeverFires == ConstantPrior => ~zscore_returned.fires

\* C21, the example of the specification: after 10, 10, ... the z-score method
\* does not fire, np.std being exactly 0.
C21_ConstantTenNeverFires ==
    (ConstantPrior /\ reported[1] = Float(10, 1))
        => (zscore_returned.std_zero /\ ~zscore_returned.fires)

\* C21: the z-score method does not fire when np.std returned 0.
C21_ZeroStdNeverFires == zscore_returned.std_zero => ~zscore_returned.fires

\* ---------------------------------------------------------------- C31
\* C31: every sample is scored against exactly the values that arrived before
\* it: the array its scoring read ends with the sample itself, no push of
\* another sample having come between its push and its scoring.
C31_ScoredAgainstEarlierArrivals ==
    \A i \in 1..Len(pool_scored) :
        pool_scored[i].window_data = SubSeq(pool_window, 1, pool_scored[i].arrival)

\* C31: the values of a metric keep their arrival order in the window, and
\* every scoring reads at least the sample it scores.
C31_ArrivalOrderKept ==
    \A i \in 1..Len(pool_scored) :
        /\ pool_scored[i].arrival <= Len(pool_scored[i].window_data)
        /\ pool_scored[i].window_data
               = SubSeq(pool_window, 1, Len(pool_scored[i].window_data))

\* ---------------------------------------------------------------- C32
\* Anomaly e is in the pending queue or in the batch of a flush in flight.
Pending(e) ==
    \/ e \in Range(batch_buffer)
    \/ \E t \in Tasks : pc[t] = "send" /\ e \in Range(batch_to_send[t])

\* C32: while the sink is down no anomaly is dropped: every enqueued anomaly
\* the sink has not accepted is still pending.
C32_NoEventDropped == \A e \in Enqueued \ Delivered : Pending(e)

\* C32, the part the code keeps: as long as cleanup has not ended the flush
\* task, no anomaly is dropped while the sink is down, and an enqueue that
\* finds the pending queue at max_batch_size or above starts another flush,
\* which fails and puts its batch back.
C32_PendingWhileTaskRuns ==
    /\ [](pc[Timer] # "done" => \A e \in Enqueued \ Delivered : Pending(e))
    /\ [][(next_event' > next_event /\ Len(batch_buffer) >= MaxBatchSize)
            => \E w \in Workers :
                  /\ pc[w] = "idle" /\ pc'[w] = "send"
                  /\ batch_to_send'[w]
                         = batch_buffer \o Consecutive(next_event, next_event' - next_event)]_vars
    /\ [][\A t \in Tasks :
            (pc[t] = "send" /\ pc'[t] # "send" /\ ~cancel_requested)
                => OccursIn(batch_to_send[t], batch_buffer')]_vars

\* C32: the sink is down, every anomaly is enqueued, nothing is in flight and
\* the pending queue holds them all, more than max_batch_size.
C32_QueueGrows ==
    /\ sink_log = <<>>
    /\ next_event = MaxEvents + 1
    /\ \A t \in Tasks : pc[t] # "send"
    /\ Len(batch_buffer) = MaxEvents
    /\ Len(batch_buffer) > MaxBatchSize

\* ---------------------------------------------------------------- C33
\* C33: no batch swapped out by a flush holds more than max_batch_size
\* anomalies.
C33_BatchBounded ==
    \A t \in Tasks : pc[t] = "send" => Len(batch_to_send[t]) <= MaxBatchSize

\* C33, what the code does: a flush swaps out the whole pending queue, what
\* the call just enqueued included, whatever its length.
C33_FlushTakesWholeQueue ==
    [][\A t \in Tasks :
          (pc[t] # "send" /\ pc'[t] = "send")
              => /\ batch_buffer' = <<>>
                 /\ batch_to_send'[t]
                        = batch_buffer \o Consecutive(next_event, next_event' - next_event)]_vars

\* ---------------------------------------------------------------- C34
\* C34: the flush task starts a flush only when the pending queue is not empty
\* and flush_interval has elapsed since the last flush attempt started; every
\* attempt, of any task, restarts that interval when it starts and not when it
\* ends, failed or not; and the flush task never sends an empty batch.
C34_TimerFlushesWhenDue ==
    /\ [][(pc[Timer] = "sleep" /\ pc'[Timer] = "send")
            => /\ batch_buffer # <<>>
               /\ last_flush_age >= FlushInterval
               /\ batch_to_send'[Timer] = batch_buffer]_vars
    /\ [][\A t \in Tasks :
            /\ (pc[t] # "send" /\ pc'[t] = "send") => last_flush_age' = 0
            /\ (pc[t] = "send" /\ pc'[t] # "send") => last_flush_age' = last_flush_age]_vars
    /\ [](pc[Timer] = "send" => batch_to_send[Timer] # <<>>)

\* The flush task is sending a batch after an earlier flush attempt failed.
C34_Witness ==
    /\ pc[Timer] = "send"
    /\ fails_left < MaxFail
    /\ batch_to_send[Timer] # <<>>
    /\ last_flush_age = 0

\* ---------------------------------------------------------------- C35
\* C35: a detect call that raises leaves every rolling window and every
\* baseline statistic as it was before the call.
C35_RaisedKeepsState ==
    [][\A data \in Samples :
          (Detect(data) /\ returned'.outcome = "raised")
              => UNCHANGED DetectionState]_vars

\* C35, the part the code keeps: a detect call that raises leaves the baseline
\* statistics alone, and of the counters it changes processed_count and
\* error_count only.
C35_RaisedKeepsBaseline ==
    [][\A data \in Samples :
          (Detect(data) /\ returned'.outcome = "raised")
              => /\ baseline_stats' = baseline_stats
                 /\ detector_metrics'
                       = [detector_metrics EXCEPT !.processed_count = @ + 1,
                                                  !.error_count = @ + 1]]_vars

\* ---------------------------------------------------------------- C36
\* 1 for TRUE, 0 for FALSE.
OneIf(b) == IF b THEN 1 ELSE 0

\* The counters after the step are the counters before it plus the given
\* numbers of calls, events and errors.
CountersGrowBy(calls, events, errors) ==
    detector_metrics'
        = [detector_metrics EXCEPT !.processed_count = @ + calls,
                                   !.anomaly_count = @ + events,
                                   !.error_count = @ + errors]

\* C36: a detect call on an initialized detector adds one to processed_count,
\* one to anomaly_count exactly if it returned an event and one to error_count
\* exactly if it raised; detect_batch counts each detect call it made the same
\* way; every other call (initialize, health_check, cleanup, a rejected detect
\* or detect_batch) changes no counter; and anomaly_count + error_count never
\* exceeds processed_count.
C36_CountersConsistent ==
    /\ [][\A data \in Samples :
            (Detect(data) /\ initialized)
                => CountersGrowBy(1, OneIf(returned'.outcome = "event"),
                                  OneIf(returned'.outcome = "raised"))]_vars
    /\ [][\A data_batch \in Batches :
            (DetectBatch(data_batch) /\ initialized)
                => LET Counted(made, calls) ==
                           CountersGrowBy(
                               made,
                               Cardinality({i \in 1..made : calls[i].outcome = "event"}),
                               OneIf(returned'.outcome = "raised"))
                   IN  Counted(Len(fed') - Len(fed),
                               Replay(data_batch, config, DetectorState))]_vars
    /\ [][(\/ \E cfg \in Configs : Initialize(cfg)
           \/ HealthCheck
           \/ DetectorCleanup
           \/ returned'.outcome = "not_initialized")
              => detector_metrics' = detector_metrics]_vars
    /\ [](detector_metrics.anomaly_count + detector_metrics.error_count
              <= detector_metrics.processed_count)

\* After a health check, one detect call has returned an event and a later
\* one has raised.
C36_Witness ==
    /\ probes >= 1
    /\ detector_metrics.anomaly_count >= 1
    /\ detector_metrics.error_count >= 1
    /\ detector_metrics.processed_count
           > detector_metrics.anomaly_count + detector_metrics.error_count

\* ---------------------------------------------------------------- C37
\* The keys of predicted_values and of raw_values of an event.
PredictedKeys(event) ==
    {event.predicted_values[i][1] : i \in 1..Len(event.predicted_values)}

RawKeys(event) == {event.raw_values[i][1] : i \in 1..Len(event.raw_values)}

\* The event lists at least one metric, the same metrics in affected_metrics,
\* z_scores and predicted_values, each of them configured and in the sample,
\* and its raw_values hold exactly the configured metrics of the sample.
KeysConsistent(event, data) ==
    /\ AffectedMetrics(event) # {}
    /\ AffectedMetrics(event) = ZScoreKeys(event)
    /\ AffectedMetrics(event) = PredictedKeys(event)
    /\ \A m \in AffectedMetrics(event) :
          m \in Range(config.metrics) /\ InSample(m, data)
    /\ RawKeys(event) = {m \in Range(config.metrics) : InSample(m, data)}
    /\ AffectedMetrics(event) \subseteq RawKeys(event)

\* C37: an event returned by detect is consistent in its keys, and every metric
\* it lists has been observed at least min_samples times.
C37_EventConsistent ==
    (returned.call = "detect" /\ returned.outcome = "event")
        => /\ KeysConsistent(returned.events[1], fed[Len(fed)])
           /\ \A m \in AffectedMetrics(returned.events[1]) :
                 DetectObservations(m) >= config.min_samples

\* C37, the part the code keeps: an event returned by detect is consistent in
\* its keys, and the window of every metric it lists holds at least
\* min_samples values.
C37_EventConsistentInWindow ==
    (returned.call = "detect" /\ returned.outcome = "event")
        => /\ KeysConsistent(returned.events[1], fed[Len(fed)])
           /\ \A m \in AffectedMetrics(returned.events[1]) :
                 Len(windows[m]) >= config.min_samples

\* ---------------------------------------------------------------- C38
\* Without batch mode anomaly e was given to an ingest call that has ended
\* without handing it to the sink.
Abandoned(e) ==
    /\ ~batch_mode
    /\ e \in Enqueued \ sink_calls
    /\ \A t \in Workers : e \notin Range(batch_to_send[t])

\* C38: without batch mode a failed send ends the ingest call of its worker
\* with the error, nothing being buffered or handed to the sink in that step;
\* nothing is ever buffered or flushed; and an anomaly is handed to the sink
\* only as the first of a new call or after the sink accepted the one before
\* it in its list, so never the failed anomaly again; and the anomalies behind
\* the failed one in the list of ingest_anomalies are never handed to the sink.
C38_DirectFailureRaised ==
    /\ [][\A w \in Workers :
            (~batch_mode /\ pc[w] = "direct" /\ pc'[w] = "idle"
                /\ fails_left' < fails_left)
                => /\ result'[w] = "raised"
                   /\ batch_buffer' = <<>>
                   /\ batch_to_send'[w] = <<>>
                   /\ sink_calls' = sink_calls
                   /\ sink_log' = sink_log]_vars
    /\ [](~batch_mode
            => /\ batch_buffer = <<>>
               /\ \A t \in Tasks : pc[t] \notin {"send", "sleep"})
    /\ [][~batch_mode
            => \A e \in Enqueued :
                  (e \in sink_calls' /\ e \notin sink_calls)
                      => \E t \in Workers :
                            /\ pc'[t] = "direct"
                            /\ batch_to_send'[t][idx'[t]] = e
                            /\ \/ pc[t] = "idle"
                               \/ /\ idx'[t] = idx[t] + 1
                                  /\ sink_log' = Append(sink_log, batch_to_send[t][idx[t]])]_vars
    /\ \A e \in 1..MaxEvents : [](Abandoned(e) => [](e \notin sink_calls))

\* Without batch mode an ingest_anomalies call has ended with the error of its
\* first anomaly, whose successor was never handed to the sink, and no call
\* is running.
C38_Witness ==
    /\ ~batch_mode
    /\ \A t \in Workers : pc[t] = "idle"
    /\ \E w \in Workers : result[w] = "raised" /\ op[w] = "ingest_anomalies"
    /\ fails_left < MaxFail
    /\ Enqueued \ sink_calls # {}
    /\ sink_log = <<>>

\* ---------------------------------------------------------------- C39
\* C39: when the sink raises in the final flush of cleanup, cleanup returns
\* normally (the error is not raised to its caller), the whole batch of that
\* flush is back in the pending queue as one contiguous run, and the periodic
\* task has ended; an ended periodic task stays ended and holds no batch; and
\* once it has ended a flush is started only by flush(), by cleanup() or by an
\* ingest call whose anomalies fill the queue to the batch size, and flush()
\* on a queue that holds anything sends the whole queue.
C39_FailedFinalFlushRequeued ==
    /\ [][\A w \in Workers :
            (op[w] = "cleanup" /\ FlushFails(w))
                => /\ pc'[w] = "idle"
                   /\ result'[w] = "requeued"
                   /\ OccursIn(batch_to_send[w], batch_buffer')
                   /\ pc'[Timer] = "done"]_vars
    /\ [][pc[Timer] = "done"
            => /\ pc'[Timer] = "done"
               /\ batch_to_send'[Timer] = <<>>]_vars
    /\ [][pc[Timer] = "done"
            => \A w \in Workers :
                  (pc[w] # "send" /\ pc'[w] = "send")
                      => /\ batch_to_send'[w] # <<>>
                         /\ \/ op'[w] \in {"flush", "cleanup"}
                            \/ /\ op'[w] \in {"ingest_anomaly", "ingest_anomalies"}
                               /\ next_event' > next_event
                               /\ SizeTrigger(batch_to_send'[w])]_vars
    /\ [][\A w \in Workers :
            (pc[w] = "idle" /\ op'[w] = "flush" /\ pc'[w] # "idle")
                => /\ pc'[w] = "send"
                   /\ batch_to_send'[w] = batch_buffer
                   /\ batch_buffer' = <<>>]_vars

\* The final flush of one worker's cleanup failed and was re-added, and the
\* flush() of the other worker, the periodic task having ended, has since
\* delivered everything: nothing is pending and the sink accepted every anomaly.
C39_Witness ==
    /\ pc[Timer] = "done"
    /\ \A t \in Workers : pc[t] = "idle"
    /\ \E w \in Workers : op[w] = "cleanup" /\ result[w] = "requeued"
    /\ \E w \in Workers : op[w] = "flush" /\ result[w] = "flushed"
    /\ batch_buffer = <<>>
    /\ Enqueued # {}
    /\ Delivered = Enqueued

\* ---------------------------------------------------------------- C40
\* C40: health_check never ends with an error: it returns False or True; it
\* returns False exactly when the detector is not initialized (never
\* initialized, or cleaned up) or the detection of the synthetic sample
\* raises, and True otherwise; and a detector that is not initialized is left
\* as it was.
C40_HealthCheckNeverRaises ==
    /\ [](returned.call = "health_check" => returned.outcome \in {"true", "false"})
    /\ [][returned'.call = "health_check" /\ (probes' # probes \/ ~initialized)
            => /\ returned'.outcome = "false"
                  <=> \/ ~initialized
                      \/ DetectInner(GenerateTestData, config, windows,
                                     baseline_stats).raised
               /\ ~initialized
                  => /\ probes' = probes
                     /\ UNCHANGED <<windows, baseline_stats, detector_metrics>>
               /\ initialized' = initialized]_vars
    /\ [](~initialized /\ returned.call = "health_check"
            => returned.outcome = "false")

\* The health check of an initialized detector returned False: the synthetic
\* sample has no "cpu", whose empty window _update_baseline_stats could not
\* summarise.
C40_Witness ==
    /\ initialized
    /\ returned.call = "health_check"
    /\ returned.outcome = "false"
    /\ windows["cpu"] = <<>>

====
